---------------------------- MODULE Spec2Model ----------------------------
(***************************************************************************)
(* State-machine model of emfi_framework.py: the ChipSHOUTER connector     *)
(* (CS_Connector), the target listener (SerialTarget), the raster scan     *)
(* (jog / move), the signature handler (onSignature) and the dispatch      *)
(* loop (LabControl.worker_loop).                                          *)
(*                                                                         *)
(* Handlers are written as operators from a "world" record (all program    *)
(* state) to a world record, so that a handler that calls another one      *)
(* (onSignature -> jog -> request_disable -> arm) is one atomic action.    *)
(* Where the interleaving of threads inside an operation matters, the      *)
(* operation takes several steps: jog() in SpecThreads, the connector's    *)
(* retry loops in SpecGen.                                                 *)
(***************************************************************************)
EXTENDS Integers, Sequences, FiniteSets, TLC

VARIABLES
    \* ---- CS_Connector and the generator device
    CS,                 \* CS_Connector: [enabled, disable_requests]
    chipshouter,        \* device: [state, voltage, measured, pat_wave, deadtime]
    \* ---- SerialTarget
    TARGET,             \* listener fields (see TARGET_init)
    event_queue,        \* queue.Queue of (device, keyword, payload, sig_params)
    stop_event,         \* threading.Event
    \* ---- experiment globals
    BOUNDARIES, REFERENCE_POINT, CURRENT_POSITION, DIRECTION,
    AXES,               \* motor positions (absolute), per axis
    TRIES_PER_POSITION, TRIES_LEFT_PER_POSITION, ALLOW_MOVEMENT,
    FAULT_PATTERN, FAULT_VOLTAGE, FAULT_VOLTAGE_START,
    FAULT_VOLTAGE_START_AT_STEP, DEAD_TIME,
    VARIABLE_STATE, VARIABLE_VOLTAGE, VARIABLE_HIGH_TIME,
    CS_DISABLED_FOR_COUNTER,
    CONFIRMED_FAULTS, CONFIRMED_ALARMS,
    timeout_counter,    \* worker_loop's local counter of queue timeouts
    \* ---- where the threads stand inside longer operations
    gen,                \* generator recovery: [device, stack of call frames]
    in_jog,             \* jog() calls in progress: sequence of [thread, sel]
    \* ---- the file system
    checkpoint_file,    \* CHECKPOINT_FILE on disk: None or Some(pickle stream)
    \* ---- the serial line from the target
    wire,               \* [VALID_SIGNATURE, kind, line, parseable, payload_str]
    \* ---- the end of the run
    session,            \* [worker: worker_loop "running"/"exited",
                        \*  exported: the exports written so far,
                        \*  cleanup: action_quit's cleanup thread
                        \*  "none"/"started"/"done"]
    \* ---- history variables (not program state; read by the properties only)
    written,            \* the globals as they were at the last save_checkpoint
    calls,              \* request_disable/release_disable calls made so far
    visited,            \* sequence of positions the raster has been at
    last_step,          \* last escalation step taken at this position/voltage
    unparseable_run,    \* consecutive unparseable lines at this position/voltage
    resets_requested,   \* SerialTarget.reset() calls since the last completion
    timeouts_in_a_row,  \* queue timeouts since the dispatch loop last got an event
    seen,               \* program states passed through since the last raster advance
    lines_since_keyword, \* lines read since the listener last buffered a keyword
    tries_here,         \* signature events processed at the current position
    caps,               \* how far this exploration follows each counter
    trace,              \* what the last action did: a sequence of [op, arg]
    \* ---- the locks (target_lock, CS_Connector._lock, dummy_lock)
    dryrun,             \* args.dryrun and not args.realtarget: DummyTarget in use
    lock_owner,         \* lock -> [owner: thread or "None", count: acquisitions]
    lock_todo           \* thread -> the acquire/release steps it has still to do

progvars == <<CS, chipshouter, TARGET, event_queue, stop_event,
              BOUNDARIES, REFERENCE_POINT, CURRENT_POSITION, DIRECTION, AXES,
              TRIES_PER_POSITION, TRIES_LEFT_PER_POSITION, ALLOW_MOVEMENT,
              FAULT_PATTERN, FAULT_VOLTAGE, FAULT_VOLTAGE_START,
              FAULT_VOLTAGE_START_AT_STEP, DEAD_TIME,
              VARIABLE_STATE, VARIABLE_VOLTAGE, VARIABLE_HIGH_TIME,
              CS_DISABLED_FOR_COUNTER, CONFIRMED_FAULTS, CONFIRMED_ALARMS,
              timeout_counter, gen, in_jog, checkpoint_file,
              wire, session>>

histvars == <<written, calls, visited, last_step, unparseable_run, resets_requested,
              timeouts_in_a_row, seen, lines_since_keyword, tries_here,
              caps, trace>>

lockvars == <<dryrun, lock_owner, lock_todo>>

vars == <<progvars, histvars, lockvars>>

(***************************************************************************)
(* Program constants (positions are in micrometres, so 1.0 mm is 1000)     *)
(***************************************************************************)
STEP_SIZE == 1000
max_travel == 50000
DIVERGENCE_LIMIT == 10                  \* 0.01 mm
MIN_VOLTAGE == 150
MAX_VOLTAGE == 500
MIN_HIGH_TIME_ns == 20
MAX_HIGH_TIME_ns == MIN_HIGH_TIME_ns * 66
FAULT_VOLTAGE_START_cfg == 280
FAULT_VOLTAGE_INCREMENTS == 10
FAULT_PATTERN_INCREMENTS == MIN_HIGH_TIME_ns
FAULT_PATTERN_START == <<1, 1, 1, 0>>
DEAD_TIME_START == IF 100 > (500 \div 30) + 1 THEN 100 ELSE (500 \div 30) + 1
TRIES_PER_POSITION_cfg == 300
UNPARSEABLE_ROW_LIMIT == 6              \* "in a row" threshold of the ladder
EMPTY_LIMIT == 50
TIMEOUT_LIMIT == 100
CS_DISABLED_LIMIT == 200
AUTO_RESET_TARGET == TRUE
KEYWORD_HANDLERS == {"Signature:", "Message:", "Digest:", "PrivKey_n:",
                     "PrivKey_d:", "PubKey_n:", "PubKey_e:", "Timings:",
                     "Pause:", "Alarm:"}

(***************************************************************************)
(* Bounds of the model                                                     *)
(***************************************************************************)
MaxStack == 4           \* longest disable stack explored
MaxCalls == 6           \* longest sequence of request/release calls counted
MaxQueue == 2           \* most events waiting in event_queue
MaxOverrun == 2         \* how far a counter is followed past its limit
MaxSkipped == 2         \* signatures skipped while disarmed, when not followed
                        \* up to CS_DISABLED_LIMIT
MaxRecords == 2         \* most fault / alarm records kept
MaxGrid == 3            \* grids of up to (MaxGrid+1) x (MaxGrid+1) cells
MaxVoltageStep == 52    \* voltages requested: up to MaxVoltageStep * 10 V
MaxTries == 2           \* largest tries-per-position explored
MaxReductions == 1      \* voltage reductions followed at one position
MaxRounds == 3          \* passes of a loop without a counter that are counted
MaxDepth == 6           \* deepest nesting of connector calls followed

(***************************************************************************)
(* The world record: all program state, as the handlers read and write it  *)
(***************************************************************************)
World ==
    [CS |-> CS, chipshouter |-> chipshouter, TARGET |-> TARGET,
     event_queue |-> event_queue, stop_event |-> stop_event,
     BOUNDARIES |-> BOUNDARIES, REFERENCE_POINT |-> REFERENCE_POINT,
     CURRENT_POSITION |-> CURRENT_POSITION, DIRECTION |-> DIRECTION,
     AXES |-> AXES, TRIES_PER_POSITION |-> TRIES_PER_POSITION,
     TRIES_LEFT_PER_POSITION |-> TRIES_LEFT_PER_POSITION,
     ALLOW_MOVEMENT |-> ALLOW_MOVEMENT, FAULT_PATTERN |-> FAULT_PATTERN,
     FAULT_VOLTAGE |-> FAULT_VOLTAGE,
     FAULT_VOLTAGE_START |-> FAULT_VOLTAGE_START,
     FAULT_VOLTAGE_START_AT_STEP |-> FAULT_VOLTAGE_START_AT_STEP,
     DEAD_TIME |-> DEAD_TIME, VARIABLE_STATE |-> VARIABLE_STATE,
     VARIABLE_VOLTAGE |-> VARIABLE_VOLTAGE,
     VARIABLE_HIGH_TIME |-> VARIABLE_HIGH_TIME,
     CS_DISABLED_FOR_COUNTER |-> CS_DISABLED_FOR_COUNTER,
     CONFIRMED_FAULTS |-> CONFIRMED_FAULTS,
     CONFIRMED_ALARMS |-> CONFIRMED_ALARMS,
     timeout_counter |-> timeout_counter, gen |-> gen, in_jog |-> in_jog,
     checkpoint_file |-> checkpoint_file, written |-> written, now |-> 0,
     wire |-> wire, session |-> session, motors |-> "ok",
     thread |-> "operator", split_jog |-> caps.split_jog, trace |-> <<>>]

Apply(w) ==
    /\ CS' = w.CS
    /\ chipshouter' = w.chipshouter
    /\ TARGET' = w.TARGET
    /\ event_queue' = w.event_queue
    /\ stop_event' = w.stop_event
    /\ BOUNDARIES' = w.BOUNDARIES
    /\ REFERENCE_POINT' = w.REFERENCE_POINT
    /\ CURRENT_POSITION' = w.CURRENT_POSITION
    /\ DIRECTION' = w.DIRECTION
    /\ AXES' = w.AXES
    /\ TRIES_PER_POSITION' = w.TRIES_PER_POSITION
    /\ TRIES_LEFT_PER_POSITION' = w.TRIES_LEFT_PER_POSITION
    /\ ALLOW_MOVEMENT' = w.ALLOW_MOVEMENT
    /\ FAULT_PATTERN' = w.FAULT_PATTERN
    /\ FAULT_VOLTAGE' = w.FAULT_VOLTAGE
    /\ FAULT_VOLTAGE_START' = w.FAULT_VOLTAGE_START
    /\ FAULT_VOLTAGE_START_AT_STEP' = w.FAULT_VOLTAGE_START_AT_STEP
    /\ DEAD_TIME' = w.DEAD_TIME
    /\ VARIABLE_STATE' = w.VARIABLE_STATE
    /\ VARIABLE_VOLTAGE' = w.VARIABLE_VOLTAGE
    /\ VARIABLE_HIGH_TIME' = w.VARIABLE_HIGH_TIME
    /\ CS_DISABLED_FOR_COUNTER' = w.CS_DISABLED_FOR_COUNTER
    /\ CONFIRMED_FAULTS' = w.CONFIRMED_FAULTS
    /\ CONFIRMED_ALARMS' = w.CONFIRMED_ALARMS
    /\ timeout_counter' = w.timeout_counter
    /\ gen' = w.gen
    /\ in_jog' = w.in_jog
    /\ checkpoint_file' = w.checkpoint_file
    /\ wire' = w.wire
    /\ session' = w.session
    /\ written' = w.written
    /\ trace' = w.trace

(***************************************************************************)
(* Python helpers                                                          *)
(***************************************************************************)
None == [some |-> FALSE]
Some(v) == [some |-> TRUE, v |-> v]

Contains(s, e) == \E i \in 1..Len(s) : s[i] = e

\* list.remove(e): removes the first occurrence
RemoveFirst(s, e) ==
    LET i == CHOOSE k \in 1..Len(s) : s[k] = e /\ \A j \in 1..(k-1) : s[j] # e
    IN  SubSeq(s, 1, i-1) \o SubSeq(s, i+1, Len(s))

\* list.pop(): removes the last element
PopLast(s) == SubSeq(s, 1, Len(s) - 1)

\* [0] * n
Repeat(x, n) == [i \in 1..n |-> x]

\* sum(1 for x in pattern if x == 1)
CountOnes(p) == Cardinality({i \in 1..Len(p) : p[i] = 1})

\* note in the world's trace that op happened (history only)
Note(w, op, arg) == [w EXCEPT !.trace = Append(@, [op |-> op, arg |-> arg])]

Min2(a, b) == IF a < b THEN a ELSE b
Max2(a, b) == IF a > b THEN a ELSE b

(***************************************************************************)
(* CS_Connector                                                            *)
(***************************************************************************)
CS_init == [enabled |-> FALSE, disable_requests |-> <<>>]

\* the device after on_mount's CS.change(voltage=volt, deadtime=DEAD_TIME_START)
chipshouter_init(volt) ==
    [state |-> "disarmed", voltage |-> volt, measured |-> volt,
     pat_wave |-> Repeat(0, 60) \o <<1, 0>>, deadtime |-> DEAD_TIME_START]

\* CS_Connector.arm(arm, reason) against a device that answers its commands
arm(w, a) ==
    LET dr == IF a /\ Len(w.CS.disable_requests) > 0 THEN <<>>
              ELSE w.CS.disable_requests
    IN  [w EXCEPT !.CS = [enabled |-> a, disable_requests |-> dr],
                  !.chipshouter.state = IF a THEN "armed" ELSE "disarmed"]

request_disable(w, reason) ==
    LET w1 == IF w.CS.enabled THEN arm(w, FALSE) ELSE w
    IN  [w1 EXCEPT !.CS.disable_requests = Append(@, reason)]

\* release_disable that forgets to re-arm when the stack runs empty
release_disable_no_rearm(w, reason) ==
    LET dr == w.CS.disable_requests
        dr1 == IF Len(dr) = 0 THEN dr
               ELSE IF Contains(dr, reason) THEN RemoveFirst(dr, reason)
               ELSE PopLast(dr)
    IN  [w EXCEPT !.CS.disable_requests = dr1]

release_disable(w, reason) ==
    LET dr == w.CS.disable_requests
        dr1 == IF Len(dr) = 0 THEN dr
               ELSE IF Contains(dr, reason) THEN RemoveFirst(dr, reason)
               ELSE PopLast(dr)
        w1 == [w EXCEPT !.CS.disable_requests = dr1]
    IN  IF Len(dr1) = 0 THEN arm(w1, TRUE) ELSE w1


\* CS_Connector.selfheal() against a device that answers its commands:
\* clears a fault, re-arms on a mismatch; ok is its return value
\* (True when no repair was needed)
selfheal(w) ==
    LET fault == w.chipshouter.state = "fault"
        w1 == IF fault THEN [w EXCEPT !.chipshouter.state = "disarmed"] ELSE w
        wrong == \/ (w1.CS.enabled /\ w1.chipshouter.state = "disarmed")
                 \/ (~w1.CS.enabled /\ w1.chipshouter.state = "armed")
        w2 == IF wrong THEN arm(w1, w1.CS.enabled) ELSE w1
    IN  [w |-> w2, ok |-> ~fault /\ ~wrong]

\* the timeHigh_ns branch of CS_Connector.change()
change_timeHigh(w, timeHigh_ns) ==
    IF ~timeHigh_ns.some THEN w
    ELSE IF timeHigh_ns.v < 0 THEN w
    ELSE IF timeHigh_ns.v > MAX_HIGH_TIME_ns THEN w
    ELSE LET no_of_ones == timeHigh_ns.v \div MIN_HIGH_TIME_ns
             no_of_zeros == 66 - no_of_ones
             pattern == Repeat(0, no_of_zeros) \o Repeat(1, no_of_ones) \o <<0>>
         IN  IF no_of_ones <= 0 THEN request_disable(w, "user")
             ELSE [w EXCEPT !.FAULT_PATTERN = pattern,
                            !.chipshouter.pat_wave = pattern]

\* the voltage check without the comparison against the dead-time
voltage_ok_ignoring_deadtime(w, v) ==
    /\ v >= 0
    /\ ~(v < MIN_VOLTAGE \/ v > MAX_VOLTAGE)

\* the voltage check without the upper limit
voltage_ok_no_upper_limit(w, v) ==
    /\ v >= 0
    /\ ~(v < MIN_VOLTAGE)
    /\ ~((v \div 30) + 1 > w.DEAD_TIME)

\* is the requested voltage accepted by change()?
voltage_ok(w, v) ==
    /\ v >= 0
    /\ ~(v < MIN_VOLTAGE \/ v > MAX_VOLTAGE)
    /\ ~((v \div 30) + 1 > w.DEAD_TIME)

\* the voltage branch of CS_Connector.change()
change_voltage(w, voltage) ==
    IF ~voltage.some THEN w
    ELSE IF ~voltage_ok(w, voltage.v) THEN Note(w, "change_voltage", voltage.v)
    ELSE Note([Note(w, "change_voltage", voltage.v) EXCEPT
                !.TARGET.number_of_unparseables_at_position_and_voltage = 0,
                !.TARGET.number_of_recovery_attempts_at_position_and_voltage = 0,
                !.FAULT_VOLTAGE = voltage.v,
                !.chipshouter.voltage = voltage.v,
                !.chipshouter.measured = voltage.v],
              "set_voltage", "accepted")

\* is the requested dead-time accepted by change()?
deadtime_ok(w, d) ==
    /\ d >= 0
    /\ ~(d < 1 \/ d > 1000)
    /\ ~(d < (w.FAULT_VOLTAGE \div 30) + 1)

\* the deadtime branch of CS_Connector.change()
change_deadtime(w, deadtime) ==
    IF ~deadtime.some THEN w
    ELSE IF ~deadtime_ok(w, deadtime.v) THEN w
    ELSE [w EXCEPT !.DEAD_TIME = deadtime.v,
                   !.chipshouter.deadtime = deadtime.v]

\* CS_Connector.change(timeHigh_ns, voltage, deadtime)
change(w, timeHigh_ns, voltage, deadtime) ==
    change_deadtime(change_voltage(change_timeHigh(w, timeHigh_ns), voltage),
                    deadtime)

(***************************************************************************)
(* Motion: store_positions, move, jog (motors that reach what is asked)    *)
(***************************************************************************)
store_positions(w) ==
    [w EXCEPT !.CURRENT_POSITION =
        [X |-> w.AXES.X - w.REFERENCE_POINT.X,
         Y |-> w.AXES.Y - w.REFERENCE_POINT.Y,
         Z |-> w.AXES.Z]]

\* move(axes, {axis: position}, overwrite=...) for one X or Y axis: the Z axis
\* is lifted to BOUNDARIES.Z.UP before and lowered to BOUNDARIES.Z.DOWN after
move(w, axis, position, overwrite) ==
    IF ~(w.ALLOW_MOVEMENT \/ overwrite) THEN w
    ELSE LET stop == position >= max_travel
             target == position + w.REFERENCE_POINT[axis]
         IN  Note([w EXCEPT !.stop_event = @ \/ stop,
                            !.AXES = [@ EXCEPT ![axis] = target,
                                               !.Z = w.BOUNDARIES.Z.DOWN]],
                  "move_to", axis)

\* jog's selection with the row-end test made one step too early
jog_select_early_row_end(w) ==
    LET x == w.CURRENT_POSITION.X
        y == w.CURRENT_POSITION.Y
        rowEnd ==
            \/ (w.DIRECTION = "right" /\ x - STEP_SIZE <= w.BOUNDARIES.X.RIGHT)
            \/ (w.DIRECTION = "left" /\ x + STEP_SIZE >= w.BOUNDARIES.X.LEFT)
    IN  IF rowEnd
        THEN IF y - STEP_SIZE < w.BOUNDARIES.Y.DOWN
             THEN [finished |-> TRUE, DIRECTION |-> w.DIRECTION,
                   axis |-> "Y", position |-> y]
             ELSE [finished |-> FALSE,
                   DIRECTION |-> IF w.DIRECTION = "right" THEN "left" ELSE "right",
                   axis |-> "Y", position |-> y - STEP_SIZE]
        ELSE [finished |-> FALSE, DIRECTION |-> w.DIRECTION, axis |-> "X",
              position |-> IF w.DIRECTION = "right" THEN x - STEP_SIZE
                           ELSE x + STEP_SIZE]

\* the position jog() selects: [finished, DIRECTION, axis, position]
jog_select(w) ==
    LET x == w.CURRENT_POSITION.X
        y == w.CURRENT_POSITION.Y
        rowEnd ==
            \/ (w.DIRECTION = "right" /\ x - STEP_SIZE < w.BOUNDARIES.X.RIGHT)
            \/ (w.DIRECTION = "left" /\ x + STEP_SIZE > w.BOUNDARIES.X.LEFT)
    IN  IF rowEnd
        THEN IF y - STEP_SIZE < w.BOUNDARIES.Y.DOWN
             THEN [finished |-> TRUE, DIRECTION |-> w.DIRECTION,
                   axis |-> "Y", position |-> y]
             ELSE [finished |-> FALSE,
                   DIRECTION |-> IF w.DIRECTION = "right" THEN "left" ELSE "right",
                   axis |-> "Y", position |-> y - STEP_SIZE]
        ELSE [finished |-> FALSE, DIRECTION |-> w.DIRECTION, axis |-> "X",
              position |-> IF w.DIRECTION = "right" THEN x - STEP_SIZE
                           ELSE x + STEP_SIZE]

\* jog()'s consistency check: "Although we are done with this position,
\* VARIABLE_STATE is not 2."
jog_check(w) ==
    IF w.VARIABLE_STATE # 2 /\ (w.VARIABLE_HIGH_TIME \/ w.VARIABLE_VOLTAGE)
       /\ w.TRIES_PER_POSITION >= 12
    THEN Note(w, "jog_check", w.VARIABLE_STATE)
    ELSE w

\* jog_begin with the try budget of the next position one short
jog_begin_short_budget(w) ==
    LET w1 == [w EXCEPT
                !.TARGET.number_of_unparseables_at_position_and_voltage = 0,
                !.TARGET.number_of_unparseables_at_position_and_voltage_in_a_row = 0,
                !.TARGET.number_of_recovery_attempts_at_position_and_voltage = 0,
                !.TRIES_LEFT_PER_POSITION = Max2(w.TRIES_PER_POSITION - 1, 1),
                !.FAULT_VOLTAGE = w.FAULT_VOLTAGE_START,
                !.FAULT_VOLTAGE_START_AT_STEP = w.FAULT_VOLTAGE_START]
        sh == selfheal(w1)
        w2 == [jog_check(request_disable(sh.w, "jogging"))
                 EXCEPT !.VARIABLE_STATE = 0]
        sel == jog_select(w2)
    IN  IF ~sh.ok THEN [w |-> sh.w, ok |-> FALSE, sel |-> sel]
        ELSE [w |-> IF sel.finished THEN w2
                    ELSE [w2 EXCEPT !.DIRECTION = sel.DIRECTION],
              ok |-> TRUE, sel |-> sel]

\* jog(axes) up to the point where the motor is commanded: the counters are
\* reset, the generator is checked and disarmed, the next position is chosen
jog_begin(w) ==
    LET w1 == [w EXCEPT
                !.TARGET.number_of_unparseables_at_position_and_voltage = 0,
                !.TARGET.number_of_unparseables_at_position_and_voltage_in_a_row = 0,
                !.TARGET.number_of_recovery_attempts_at_position_and_voltage = 0,
                !.TRIES_LEFT_PER_POSITION = w.TRIES_PER_POSITION,
                !.FAULT_VOLTAGE = w.FAULT_VOLTAGE_START,
                !.FAULT_VOLTAGE_START_AT_STEP = w.FAULT_VOLTAGE_START]
        sh == selfheal(w1)
        w2 == [jog_check(request_disable(sh.w, "jogging"))
                 EXCEPT !.VARIABLE_STATE = 0]
        sel == jog_select(w2)
    IN  IF ~sh.ok THEN [w |-> sh.w, ok |-> FALSE, sel |-> sel]
        ELSE [w |-> IF sel.finished THEN w2
                    ELSE [w2 EXCEPT !.DIRECTION = sel.DIRECTION],
              ok |-> TRUE, sel |-> sel]

\* the rest of jog(axes): the move, store_positions and the finally clause
jog_end(w, sel) ==
    LET w3 == IF sel.finished THEN w
              ELSE store_positions(move(w, sel.axis, sel.position, FALSE))
        ret == IF sel.finished THEN "True" ELSE "None"
    IN  [w |-> Note(release_disable(w3, "jogging"), "jog", ret), ret |-> ret]

\* jog(axes): [w, ret] with ret "True" (scan finished), "False" (position
\* repeated after a generator self-heal) or "None" (moved on).  Where the
\* threads are followed step by step (split_jog) the call is left standing
\* at the motor command, ret is "pending" and JogEnd completes it.
jog(w) ==
    LET b == jog_begin(w)
    IN  IF ~b.ok THEN [w |-> Note(b.w, "jog", "False"), ret |-> "False"]
        ELSE IF w.split_jog
        THEN [w |-> [b.w EXCEPT !.in_jog =
                        Append(@, [thread |-> w.thread, sel |-> b.sel])],
              ret |-> "pending"]
        ELSE jog_end(b.w, b.sel)

(***************************************************************************)
(* SerialTarget.  A received line is given by what _serial_to_string made  *)
(* of it: (parseable, line_str), line_str one of the line shapes below.    *)
(***************************************************************************)
VALID_SIGNATURE == "SIG_VALID"
SignatureLines == {"SIG_VALID", "SIG_FAULTY"}   \* hex of a signature's length
TimingLines == {"1,2,3"}
AlarmLines == {"ALARM_A"}
BannerTop == "BANNER_TOP"
BannerEnd == "BANNER_END"

TARGET_init ==
    [target_state |-> "NORMAL", time_last_reset |-> "None",
     banner_provided |-> TRUE, buffer |-> "None",
     number_of_unparseables_at_position_and_voltage |-> 0,
     number_of_unparseables_at_position_and_voltage_in_a_row |-> 0,
     number_of_empty |-> 0,
     number_of_recovery_attempts_at_position_and_voltage |-> 0,
     alternative_baudrate |-> TRUE, baudrate |-> "TARGET_BAUDRATE",
     ser_baudrate |-> "TARGET_BAUDRATE"]

header_first_part(w) == IF w.TARGET.banner_provided THEN {BannerTop} ELSE {}
header_last_part(w) == IF w.TARGET.banner_provided THEN {BannerEnd} ELSE {}

_is_timings(s) == s \in TimingLines
_is_alarm(s) == s \in AlarmLines

\* SerialTarget.reset(); arduino_ok: the reset-trigger device answered "reset"
reset(w, arduino_ok) ==
    LET w1 == request_disable([w EXCEPT !.TARGET.time_last_reset = "set"],
                              "target_reset")
        w2 == [w1 EXCEPT !.TARGET.target_state =
                 IF @ = "AFTER_FIRST_RESET" THEN "STARTED_SECOND_RESET"
                 ELSE "STARTED_FIRST_RESET"]
    IN  IF arduino_ok THEN Note(w2, "reset", "ok")
        ELSE Note(release_disable(w2, "target_reset"), "reset", "failed")

_complete_reset(w, line_str, arduino_ok) ==
    LET w1 == [w EXCEPT !.TARGET.time_last_reset = "None",
                        !.TARGET.target_state =
                            IF @ = "IN_FIRST_RESET" THEN "AFTER_FIRST_RESET"
                            ELSE "AFTER_SECOND_RESET"]
        w2 == IF Contains(w1.CS.disable_requests, "target_reset")
              THEN release_disable(w1, "target_reset") ELSE w1
        w3 == Note(w2, "complete_reset", w2.TARGET.target_state)
    IN  IF line_str \in header_last_part(w) THEN w3
        ELSE IF w3.TARGET.target_state # "AFTER_SECOND_RESET"
        THEN reset([w3 EXCEPT !.TARGET.target_state = "STARTED_SECOND_RESET"],
                   arduino_ok)
        ELSE w3

\* _handle_reset_state: [w, consumed]; timed_out: more than
\* MAX_TIME_REQUIRED_FOR_TARGET_RESET_in_s passed since time_last_reset
_handle_reset_state(w, line_str, timed_out, arduino_ok) ==
    IF w.TARGET.target_state \in {"IN_FIRST_RESET", "IN_SECOND_RESET"}
    THEN LET fresh == w.TARGET.time_last_reset = "None"
             w1 == [w EXCEPT !.TARGET.time_last_reset = "set"]
             reset_complete ==
                 \/ (w.TARGET.banner_provided /\ line_str \in header_last_part(w))
                 \/ (timed_out /\ ~fresh)
         IN  [w |-> IF reset_complete
                    THEN _complete_reset(w1, line_str, arduino_ok) ELSE w1,
              consumed |-> TRUE]
    ELSE [w |-> w, consumed |-> FALSE]

\* _detect_target_reset: [w, consumed]
_detect_target_reset(w, line_str) ==
    IF ~w.TARGET.banner_provided \/ line_str \notin header_first_part(w)
    THEN [w |-> w, consumed |-> FALSE]
    ELSE [w |-> [w EXCEPT !.TARGET.target_state =
                    IF @ = "STARTED_SECOND_RESET" THEN "IN_SECOND_RESET"
                    ELSE "IN_FIRST_RESET"],
          consumed |-> TRUE]

_gather_signature_params(w) ==
    Some([position |-> w.CURRENT_POSITION,
          voltage_set |-> w.chipshouter.voltage,
          voltage_measured |-> w.chipshouter.measured,
          pattern |-> w.chipshouter.pat_wave])

put(w, keyword, payload, sig_params) ==
    [w EXCEPT !.event_queue =
        Append(@, [device |-> "TARGET", keyword |-> keyword,
                   payload |-> payload, sig_params |-> sig_params])]

_handle_parseable_message(w, line_str) ==
    IF w.TARGET.buffer # "None"
    THEN LET w1 == [w EXCEPT !.TARGET.buffer = "None"]
         IN  IF line_str \in KEYWORD_HANDLERS THEN w1
             ELSE put(w1, w.TARGET.buffer, line_str,
                      IF w.TARGET.buffer \in {"Signature:", "Alarm:"}
                      THEN _gather_signature_params(w) ELSE None)
    ELSE IF line_str \in KEYWORD_HANDLERS
    THEN [w EXCEPT !.TARGET.buffer = line_str]
    ELSE IF _is_timings(line_str) THEN put(w, "Timings:", line_str, None)
    ELSE IF _is_alarm(line_str) THEN put(w, "Alarm:", line_str, None)
    ELSE IF line_str = "for 30sec" THEN put(w, "Pause:", line_str, None)
    ELSE IF line_str \in SignatureLines
    THEN put(w, "Signature:", line_str, _gather_signature_params(w))
    ELSE put(w, "None", line_str, None)

_check_voltage_reduction(w) ==
    IF w.TARGET.number_of_unparseables_at_position_and_voltage
         >= Max2(w.TRIES_PER_POSITION \div 3, 10)
    THEN LET w1 == [w EXCEPT
                !.TARGET.number_of_unparseables_at_position_and_voltage = 0,
                !.TARGET.number_of_unparseables_at_position_and_voltage_in_a_row = 0,
                !.TRIES_LEFT_PER_POSITION = w.TRIES_PER_POSITION]
         IN  IF w1.FAULT_VOLTAGE - FAULT_VOLTAGE_INCREMENTS > MIN_VOLTAGE
             THEN LET v == w1.FAULT_VOLTAGE - FAULT_VOLTAGE_INCREMENTS
                  IN  change([w1 EXCEPT
                                !.FAULT_VOLTAGE = v,
                                !.FAULT_VOLTAGE_START_AT_STEP =
                                    @ - FAULT_VOLTAGE_INCREMENTS],
                             None, Some(v), None)
             ELSE LET j == jog([w1 EXCEPT !.VARIABLE_STATE = 0])
                  IN  IF j.ret = "True" THEN [j.w EXCEPT !.stop_event = TRUE]
                      ELSE j.w
    ELSE w

\* the ladder with an attempts counter that is never advanced
recovery_ladder_stuck(w, arduino_ok) ==
    LET n == w.TARGET.number_of_recovery_attempts_at_position_and_voltage
    IN  IF n = 0
        THEN Note([w EXCEPT !.TARGET.target_state = "TRYING_BAUDRATES",
                            !.TARGET.ser_baudrate = "ALTERNATIVE_BAUDRATE"],
                  "ladder", "baud")
        ELSE w

\* the escalation ladder of _handle_unparseable_message (the part under
\* "in_a_row >= 6")
recovery_ladder(w, arduino_ok) ==
    LET n == w.TARGET.number_of_recovery_attempts_at_position_and_voltage
        w1 == IF n = 0
              THEN IF w.TARGET.alternative_baudrate
                      /\ w.TARGET.baudrate = "TARGET_BAUDRATE"
                   THEN Note([w EXCEPT !.TARGET.target_state = "TRYING_BAUDRATES",
                                       !.TARGET.ser_baudrate = "ALTERNATIVE_BAUDRATE"],
                             "ladder", "baud")
                   ELSE Note(w, "ladder", "baud_skipped")
              ELSE IF n = 1
              THEN Note(request_disable(
                          [w EXCEPT !.TARGET.target_state = "CS_DISABLED",
                                    !.TARGET.baudrate = "TARGET_BAUDRATE",
                                    !.TARGET.ser_baudrate = "TARGET_BAUDRATE"],
                          "unparseable_signature_check"),
                        "ladder", "disable")
              ELSE IF n = 2 THEN reset(Note(w, "ladder", "reset"), arduino_ok)
              ELSE w
    IN  [w1 EXCEPT !.TARGET.number_of_recovery_attempts_at_position_and_voltage =
            IF n >= 2 THEN 0 ELSE n + 1]

_handle_unparseable_message(w, arduino_ok) ==
    LET w1 == [Note(w, "unparseable", "line") EXCEPT
                !.TARGET.number_of_unparseables_at_position_and_voltage = @ + 1,
                !.TARGET.number_of_unparseables_at_position_and_voltage_in_a_row
                    = @ + 1]
        w2 == IF w1.TARGET.number_of_unparseables_at_position_and_voltage_in_a_row
                   >= UNPARSEABLE_ROW_LIMIT
              THEN recovery_ladder(w1, arduino_ok) ELSE w1
    IN  _check_voltage_reduction(w2)

_update_state_machine(w, parseable) ==
    IF w.TARGET.target_state = "NORMAL" /\ ~parseable
    THEN [w EXCEPT !.TARGET.target_state = "FIRST_UNPARSEABLE"]
    ELSE w

_reset_state_machine(w, parseable) ==
    IF parseable /\ w.TARGET.target_state # "NORMAL"
    THEN LET old_state == w.TARGET.target_state
             w1 == [w EXCEPT
                !.TARGET.number_of_unparseables_at_position_and_voltage_in_a_row = 0,
                !.TARGET.target_state = "NORMAL"]
         IN  IF old_state # "FIRST_UNPARSEABLE" /\ AUTO_RESET_TARGET
                /\ Contains(w1.CS.disable_requests, "unparseable_signature_check")
             THEN release_disable(w1, "unparseable_signature_check")
             ELSE w1
    ELSE w

\* one pass of listen()'s loop for a non-empty line
listen_line(w, parseable, line_str, timed_out, arduino_ok) ==
    LET w0 == [w EXCEPT !.TARGET.number_of_empty = 0]
        rs == _handle_reset_state(w0, line_str, timed_out, arduino_ok)
        dt == _detect_target_reset(w0, line_str)
    IN  IF rs.consumed THEN rs.w
        ELSE IF w0.TARGET.banner_provided /\ dt.consumed THEN dt.w
        ELSE IF ~w0.TARGET.banner_provided
                /\ w0.TARGET.target_state = "STARTED_FIRST_RESET"
        THEN [w0 EXCEPT !.TARGET.time_last_reset = "set",
                        !.TARGET.target_state = "IN_FIRST_RESET"]
        ELSE LET w1 == IF parseable
                       THEN _handle_parseable_message(
                                Note(w0, "parseable", line_str), line_str)
                       ELSE _handle_unparseable_message(w0, arduino_ok)
             IN  _reset_state_machine(_update_state_machine(w1, parseable),
                                      parseable)

\* one pass of listen()'s loop for an empty read
_handle_empty_lines(w, arduino_ok) ==
    LET w1 == [w EXCEPT !.TARGET.number_of_empty = @ + 1]
    IN  IF w1.TARGET.number_of_empty > EMPTY_LIMIT THEN reset(w1, arduino_ok)
        ELSE w1


(***************************************************************************)
(* Keyword handlers and the dispatch loop (worker_loop).                   *)
(***************************************************************************)
high_time_start == CountOnes(FAULT_PATTERN_START) * FAULT_PATTERN_INCREMENTS

\* the two adaptive phases of onSignature
adapt_parameters(w) ==
    IF (w.VARIABLE_HIGH_TIME \/ w.VARIABLE_VOLTAGE) /\ w.TRIES_PER_POSITION >= 12
    THEN IF w.VARIABLE_STATE = 0
            /\ 100 * w.TRIES_LEFT_PER_POSITION <= 66 * w.TRIES_PER_POSITION
         THEN LET new_high_time ==
                      IF high_time_start >= MAX_HIGH_TIME_ns
                      THEN high_time_start - FAULT_PATTERN_INCREMENTS
                      ELSE Min2(high_time_start + FAULT_PATTERN_INCREMENTS,
                                MAX_HIGH_TIME_ns)
                  w1 == IF w.VARIABLE_HIGH_TIME
                        THEN change(w, Some(new_high_time), None, None) ELSE w
                  new_voltage ==
                      IF w1.FAULT_VOLTAGE_START_AT_STEP
                           >= MAX_VOLTAGE - FAULT_VOLTAGE_INCREMENTS
                      THEN w1.FAULT_VOLTAGE_START_AT_STEP - FAULT_VOLTAGE_INCREMENTS
                      ELSE Min2(w1.FAULT_VOLTAGE_START_AT_STEP
                                  + FAULT_VOLTAGE_INCREMENTS, MAX_VOLTAGE)
                  w2 == IF w.VARIABLE_VOLTAGE
                        THEN change(w1, None, Some(new_voltage), None) ELSE w1
              IN  [w2 EXCEPT !.VARIABLE_STATE = 1]
         ELSE IF w.VARIABLE_STATE = 1
                 /\ 100 * w.TRIES_LEFT_PER_POSITION <= 33 * w.TRIES_PER_POSITION
         THEN LET new_high_time ==
                      IF high_time_start >= MAX_HIGH_TIME_ns
                      THEN high_time_start - (2 * FAULT_PATTERN_INCREMENTS)
                      ELSE Max2(high_time_start - FAULT_PATTERN_INCREMENTS,
                                MIN_HIGH_TIME_ns)
                  w1 == IF w.VARIABLE_HIGH_TIME
                        THEN change(w, Some(new_high_time), None, None) ELSE w
                  new_voltage ==
                      IF w1.FAULT_VOLTAGE_START_AT_STEP >= MAX_VOLTAGE
                      THEN w1.FAULT_VOLTAGE_START_AT_STEP
                             - (2 * FAULT_VOLTAGE_INCREMENTS)
                      ELSE Max2(w1.FAULT_VOLTAGE_START_AT_STEP
                                  - FAULT_VOLTAGE_INCREMENTS, MIN_VOLTAGE)
                  w2 == IF w.VARIABLE_VOLTAGE
                        THEN change(w1, None, Some(new_voltage), None) ELSE w1
              IN  [w2 EXCEPT !.VARIABLE_STATE = 2]
         ELSE w
    ELSE w

\* selfheal_axes() with the axes homed: the controllers are looked up again;
\* when none is found the exception is caught inside and None is returned.
\* w.motors: "ok", "gone" (reads raise, no controller is found) or "flaky"
\* (reads raise, no controller is found at first, all are found later)
selfheal_axes(w) ==
    Note(w, "selfheal_axes", IF w.motors = "gone" THEN "failed" ELSE "ok")

\* onSignature: [w, ret], ret the handler's return value ("raise": it raised).
\* With motors not "ok" store_positions' read raises, its selfheal_axes()
\* returns None and store_positions(None) raises out of the handler.
onSignature(w, payload_str, sig_params) ==
    IF ~w.CS.enabled
    THEN LET w1 == [Note(w, "skipped", payload_str) EXCEPT
                        !.CS_DISABLED_FOR_COUNTER = @ + 1]
         IN  [w |-> IF w1.CS_DISABLED_FOR_COUNTER > CS_DISABLED_LIMIT
                    THEN release_disable(w1, "CS_disabeled_timeout") ELSE w1,
              ret |-> "None"]
    ELSE IF payload_str # VALID_SIGNATURE /\ w.motors # "ok"
    THEN [w |-> Note(selfheal_axes([w EXCEPT !.CS_DISABLED_FOR_COUNTER = 0,
                                             !.motors = "gone"]),
                     "raise", "store_positions"),
          ret |-> "raise"]
    ELSE LET w1 == [w EXCEPT !.CS_DISABLED_FOR_COUNTER = 0]
             w2 == IF payload_str # VALID_SIGNATURE
                   THEN [store_positions(w1) EXCEPT !.CONFIRMED_FAULTS =
                            Append(@, [signature |-> payload_str,
                                       sig_params |-> sig_params])]
                   ELSE w1
         IN  IF payload_str # VALID_SIGNATURE /\ ~sig_params.some
             THEN [w |-> w2, ret |-> "raise"]
             ELSE LET w3 == adapt_parameters(w2)
                  IN  IF w3.TRIES_LEFT_PER_POSITION <= 1 /\ w3.ALLOW_MOVEMENT
                      THEN jog(w3)
                      ELSE [w |-> [w3 EXCEPT !.TRIES_LEFT_PER_POSITION = @ - 1],
                            ret |-> "False"]

onAlarm(w, payload_str, sig_params) ==
    [w |-> [w EXCEPT !.CONFIRMED_ALARMS =
                Append(@, [alarms |-> payload_str, sig_params |-> sig_params])],
     ret |-> "None"]

\* worker_loop's handleException: reset the target, heal axes and pulser;
\* each of the three catches its own exceptions, so the except branch
\* (export, checkpoint, stop) is not entered from them
worker_handleException(w, arduino_ok) ==
    LET w1 == reset(w, arduino_ok)
        w2 == selfheal_axes([w1 EXCEPT !.motors =
                                IF w.motors = "flaky" THEN "ok" ELSE @])
    IN  Note(selfheal(w2).w, "cs_selfheal", "done")

\* LabControl.action_quit(force): with the stop flag not yet set and the
\* dialog answered yes (or force) the cleanup thread is started, which sets
\* the flag; with the flag set and is_shutdown not yet True nothing is done
action_quit(w, force, quit) ==
    IF ~w.stop_event /\ (force \/ quit)
    THEN Note([w EXCEPT !.stop_event = TRUE, !.session.cleanup = "started"],
              "cleanup", "started")
    ELSE w

\* the rest of cleanup(), once both threads have been joined: the generator
\* is disarmed and is_shutdown is set
cleanup_end(w) ==
    Note([arm(w, FALSE) EXCEPT !.session.cleanup = "done"], "cleanup", "done")

\* one pass of worker_loop with an event available
dispatch(w, arduino_ok) ==
    LET ev == Head(w.event_queue)
        w0 == Note([w EXCEPT !.event_queue = Tail(@)], "dispatch", ev.keyword)
        r  == IF ev.keyword = "Signature:"
              THEN onSignature(w0, ev.payload, ev.sig_params)
              ELSE IF ev.keyword = "Alarm:"
              THEN onAlarm(w0, ev.payload, ev.sig_params)
              ELSE [w |-> w0, ret |-> "None"]
    IN  IF r.ret = "True" THEN action_quit(r.w, TRUE, TRUE)
        ELSE IF r.ret = "raise" THEN worker_handleException(r.w, arduino_ok)
        ELSE r.w

\* one pass of worker_loop when the queue stayed empty for the get timeout
queue_empty(w, arduino_ok) ==
    LET w1 == [Note(w, "queue_empty", "timeout") EXCEPT
                   !.timeout_counter = @ + 1]
    IN  IF w1.timeout_counter > TIMEOUT_LIMIT
        THEN [reset(w1, arduino_ok) EXCEPT !.timeout_counter = 0]
        ELSE w1


(***************************************************************************)
(* Operator actions (LabControl's action_ methods)                          *)
(***************************************************************************)
action_set_position(w) ==
    store_positions([w EXCEPT !.ALLOW_MOVEMENT = ~@])

action_set_tries_per_position(w, new_tries) ==
    IF new_tries # w.TRIES_PER_POSITION
    THEN [w EXCEPT !.TRIES_PER_POSITION = new_tries,
                   !.TRIES_LEFT_PER_POSITION =
                       IF @ > new_tries THEN new_tries ELSE @]
    ELSE w

action_set_voltage(w, new_voltage) ==
    IF new_voltage # w.FAULT_VOLTAGE
    THEN change([w EXCEPT !.FAULT_VOLTAGE_START = new_voltage,
                          !.FAULT_VOLTAGE_START_AT_STEP = new_voltage],
                None, Some(new_voltage), None)
    ELSE w

action_reset_target(w, arduino_ok) ==
    IF w.TARGET.target_state \notin {"NORMAL", "CS_DISABLED", "TRYING_BAUDRATES"}
    THEN w
    ELSE reset(w, arduino_ok)

action_force_reset_target(w, arduino_ok) ==
    reset([w EXCEPT !.TARGET.target_state = "NORMAL"], arduino_ok)

action_disable_CS(w) ==
    IF Contains(w.CS.disable_requests, "user_request")
    THEN release_disable(w, "user_request")
    ELSE request_disable(w, "user_request")

(***************************************************************************)
(* Initial states and the history the properties read                      *)
(***************************************************************************)
\* state after the globals are initialised, the connector and the listener
\* are constructed and the table stands at (LEFT, UP); bnd, ref, tpp and
\* volt are the calibrated boundaries, the reference point, the tries per
\* position and the start voltage the operator has set
InitWorld(bnd, ref, tpp, volt) ==
    [CS |-> CS_init, chipshouter |-> chipshouter_init(volt),
     TARGET |-> TARGET_init,
     event_queue |-> <<>>, stop_event |-> FALSE,
     BOUNDARIES |-> bnd, REFERENCE_POINT |-> ref,
     CURRENT_POSITION |-> [X |-> bnd.X.LEFT, Y |-> bnd.Y.UP, Z |-> bnd.Z.DOWN],
     DIRECTION |-> "right",
     AXES |-> [X |-> bnd.X.LEFT + ref.X, Y |-> bnd.Y.UP + ref.Y,
               Z |-> bnd.Z.DOWN],
     TRIES_PER_POSITION |-> tpp, TRIES_LEFT_PER_POSITION |-> tpp,
     ALLOW_MOVEMENT |-> TRUE, FAULT_PATTERN |-> FAULT_PATTERN_START,
     FAULT_VOLTAGE |-> volt, FAULT_VOLTAGE_START |-> volt,
     FAULT_VOLTAGE_START_AT_STEP |-> volt,
     DEAD_TIME |-> DEAD_TIME_START, VARIABLE_STATE |-> 0,
     VARIABLE_VOLTAGE |-> FALSE, VARIABLE_HIGH_TIME |-> TRUE,
     CS_DISABLED_FOR_COUNTER |-> 0,
     CONFIRMED_FAULTS |-> <<>>, CONFIRMED_ALARMS |-> <<>>,
     timeout_counter |-> 0, gen |-> [device |-> "ok", stack |-> <<>>],
     in_jog |-> <<>>, checkpoint_file |-> [some |-> FALSE],
     written |-> [some |-> FALSE], now |-> 0, motors |-> "ok",
     session |-> [worker |-> "running", exported |-> {}, cleanup |-> "none"],
     wire |-> [VALID_SIGNATURE |-> <<>>, kind |-> "none", line |-> <<>>,
               parseable |-> FALSE, payload_str |-> <<>>],
     thread |-> "operator", split_jog |-> FALSE,
     trace |-> <<>>]

\* the world once on_mount's TARGET.reset() was answered by the target's
\* banner: the generator is armed and the listener is in AFTER_FIRST_RESET
Running(w) ==
    LET w1 == reset(w, TRUE)
        w2 == listen_line(w1, TRUE, BannerTop, FALSE, TRUE)
        w3 == listen_line(w2, TRUE, BannerEnd, FALSE, TRUE)
    IN  [w3 EXCEPT !.trace = <<>>]

\* boundaries of a grid of (cols+1) x (rows+1) cells, in micrometres
Grid(cols, rows) ==
    [X |-> [LEFT |-> cols * STEP_SIZE, RIGHT |-> 0],
     Y |-> [UP |-> rows * STEP_SIZE, DOWN |-> 0],
     Z |-> [UP |-> 0, DOWN |-> 2000]]

RefPoint == [X |-> 5000, Y |-> 7000]

\* a start voltage one reduction above the floor
LowVoltage == MIN_VOLTAGE + 2 * FAULT_VOLTAGE_INCREMENTS

\* counters followed only a little way / all the way to their limits
ShortCaps ==
    [number_of_empty |-> MaxOverrun, CS_DISABLED_FOR_COUNTER |-> MaxSkipped,
     timeout_counter |-> MaxOverrun, disable_requests |-> MaxStack,
     event_queue |-> MaxQueue, records |-> MaxRecords, calls |-> FALSE,
     history |-> TRUE, split_jog |-> FALSE, trace |-> TRUE,
     checkpoint |-> FALSE, watch |-> FALSE, pairs |-> FALSE,
     tries |-> FALSE,
     reductions |-> (MAX_VOLTAGE - MIN_VOLTAGE) \div FAULT_VOLTAGE_INCREMENTS]
FullCaps ==
    [number_of_empty |-> EMPTY_LIMIT + MaxOverrun,
     CS_DISABLED_FOR_COUNTER |-> CS_DISABLED_LIMIT + MaxOverrun,
     timeout_counter |-> TIMEOUT_LIMIT, disable_requests |-> MaxStack,
     event_queue |-> MaxQueue, records |-> MaxRecords, calls |-> FALSE,
     history |-> TRUE, split_jog |-> FALSE, trace |-> TRUE,
     checkpoint |-> FALSE, watch |-> FALSE, pairs |-> FALSE,
     tries |-> FALSE,
     reductions |-> (MAX_VOLTAGE - MIN_VOLTAGE) \div FAULT_VOLTAGE_INCREMENTS]

\* target_lock and CS_Connector._lock are RLocks, dummy_lock is a Lock
Locks == {"target_lock", "CS._lock", "dummy_lock"}
Reentrant(l) == l # "dummy_lock"
\* the listener thread, the dispatch thread, and the console's callbacks
Threads == {"listener", "worker", "console"}

\* no lock is held and no thread is inside a locking path
LocksFree(dummy) ==
    /\ dryrun = dummy
    /\ lock_owner = [l \in Locks |-> [owner |-> "None", count |-> 0]]
    /\ lock_todo = [t \in Threads |-> <<>>]

StartWorld(w, c) ==
    /\ caps = c
    /\ CS = w.CS
    /\ chipshouter = w.chipshouter
    /\ TARGET = w.TARGET
    /\ event_queue = w.event_queue
    /\ stop_event = w.stop_event
    /\ BOUNDARIES = w.BOUNDARIES
    /\ REFERENCE_POINT = w.REFERENCE_POINT
    /\ CURRENT_POSITION = w.CURRENT_POSITION
    /\ DIRECTION = w.DIRECTION
    /\ AXES = w.AXES
    /\ TRIES_PER_POSITION = w.TRIES_PER_POSITION
    /\ TRIES_LEFT_PER_POSITION = w.TRIES_LEFT_PER_POSITION
    /\ ALLOW_MOVEMENT = w.ALLOW_MOVEMENT
    /\ FAULT_PATTERN = w.FAULT_PATTERN
    /\ FAULT_VOLTAGE = w.FAULT_VOLTAGE
    /\ FAULT_VOLTAGE_START = w.FAULT_VOLTAGE_START
    /\ FAULT_VOLTAGE_START_AT_STEP = w.FAULT_VOLTAGE_START_AT_STEP
    /\ DEAD_TIME = w.DEAD_TIME
    /\ VARIABLE_STATE = w.VARIABLE_STATE
    /\ VARIABLE_VOLTAGE = w.VARIABLE_VOLTAGE
    /\ VARIABLE_HIGH_TIME = w.VARIABLE_HIGH_TIME
    /\ CS_DISABLED_FOR_COUNTER = w.CS_DISABLED_FOR_COUNTER
    /\ CONFIRMED_FAULTS = w.CONFIRMED_FAULTS
    /\ CONFIRMED_ALARMS = w.CONFIRMED_ALARMS
    /\ timeout_counter = w.timeout_counter
    /\ gen = w.gen
    /\ in_jog = w.in_jog
    /\ checkpoint_file = w.checkpoint_file
    /\ wire = w.wire
    /\ session = w.session
    /\ written = w.written
    /\ trace = w.trace
    /\ calls = 0
    /\ visited = <<[X |-> w.CURRENT_POSITION.X, Y |-> w.CURRENT_POSITION.Y]>>
    /\ last_step = "none"
    /\ unparseable_run = 0
    /\ resets_requested = 0
    /\ timeouts_in_a_row = 0
    /\ seen = {}
    /\ lines_since_keyword = 0
    /\ tries_here = 0

Start(w, c) ==
    /\ LocksFree(FALSE)
    /\ StartWorld(w, c)

\* the markers of a trace with the given op
Marks(tr, op) == {i \in 1..Len(tr) : tr[i].op = op}
Did(tr, op, arg) == \E i \in Marks(tr, op) : tr[i].arg = arg

\* the ladder restarts when the raster advances or a voltage is set
LadderSucc(s) ==
    CASE s = "none" -> "baud"
      [] s = "baud" -> "disable"
      [] s = "disable" -> "reset"
      [] OTHER -> "baud"

RECURSIVE LadderLast(_, _)
LadderLast(last, tr) ==
    IF tr = <<>> THEN last
    ELSE LET m == Head(tr)
         IN  LadderLast(IF m.op = "ladder" THEN m.arg
                        ELSE IF m.op \in {"jog", "set_voltage"} THEN "none"
                        ELSE last,
                        Tail(tr))

\* consecutive unparseable lines handled at this position/voltage
RECURSIVE UnparseableRun(_, _)
UnparseableRun(n, tr) ==
    IF tr = <<>> THEN n
    ELSE LET m == Head(tr)
         IN  UnparseableRun(IF m.op = "unparseable" THEN n + 1
                            ELSE IF m.op \in {"parseable", "jog", "set_voltage"}
                            THEN 0
                            ELSE n,
                            Tail(tr))

\* what a handler did (tr) respects the ladder: a step is taken exactly when
\* an unparseable line makes the run six or longer, and it is the successor
\* of the last step taken at this position/voltage
RECURSIVE LadderOK(_, _, _, _)
LadderOK(last, run, due, tr) ==
    IF tr = <<>> THEN ~due
    ELSE LET m == Head(tr)
         IN  CASE m.op = "unparseable" ->
                    ~due /\ LadderOK(last, run + 1,
                                     run + 1 >= UNPARSEABLE_ROW_LIMIT, Tail(tr))
               [] m.op = "ladder" ->
                    /\ due
                    /\ m.arg = LadderSucc(last)
                    /\ LadderOK(m.arg, run, FALSE, Tail(tr))
               [] m.op \in {"jog", "set_voltage"} ->
                    ~due /\ LadderOK("none", 0, FALSE, Tail(tr))
               [] m.op = "parseable" ->
                    ~due /\ LadderOK(last, 0, FALSE, Tail(tr))
               [] OTHER -> LadderOK(last, run, due, Tail(tr))

RECURSIVE ResetsPending(_, _)
ResetsPending(n, tr) ==
    IF tr = <<>> THEN n
    ELSE LET m == Head(tr)
         IN  ResetsPending(IF m.op = "reset" /\ m.arg = "ok" THEN n + 1
                           ELSE IF m.op = "complete_reset" THEN 0
                           ELSE n,
                           Tail(tr))

\* the part of the state space that is explored
Bounded(w) ==
    /\ Len(w.CS.disable_requests) <= caps.disable_requests
    /\ Len(w.event_queue) <= caps.event_queue
    /\ Len(w.CONFIRMED_FAULTS) <= caps.records
    /\ Len(w.CONFIRMED_ALARMS) <= caps.records
    /\ w.TRIES_LEFT_PER_POSITION >= 0 - MaxOverrun
    /\ w.TARGET.number_of_empty <= caps.number_of_empty
    /\ w.CS_DISABLED_FOR_COUNTER <= caps.CS_DISABLED_FOR_COUNTER
    /\ w.timeout_counter <= caps.timeout_counter
    /\ w.FAULT_VOLTAGE_START - w.FAULT_VOLTAGE_START_AT_STEP
         <= caps.reductions * FAULT_VOLTAGE_INCREMENTS

\* an action: the program state becomes w, the history follows w.trace
Step(w) ==
    /\ Bounded(w)
    /\ UNCHANGED lockvars
    /\ Apply([w EXCEPT !.trace = IF caps.trace THEN @ ELSE <<>>,
                       !.checkpoint_file =
                           IF caps.checkpoint THEN @ ELSE [some |-> FALSE],
                       !.written =
                           IF caps.checkpoint THEN @ ELSE [some |-> FALSE]])
    /\ caps' = caps
    /\ calls' = IF caps.calls THEN Min2(calls + 1, MaxCalls) ELSE calls
    /\ visited' = IF caps.history /\ Did(w.trace, "jog", "None")
                  THEN Append(visited, [X |-> w.CURRENT_POSITION.X,
                                        Y |-> w.CURRENT_POSITION.Y])
                  ELSE visited
    /\ last_step' = IF caps.history THEN LadderLast(last_step, w.trace)
                    ELSE last_step
    /\ unparseable_run' = IF caps.history
                          THEN UnparseableRun(unparseable_run, w.trace)
                          ELSE unparseable_run
    /\ resets_requested' = IF caps.history
                           THEN ResetsPending(resets_requested, w.trace)
                           ELSE resets_requested
    /\ timeouts_in_a_row' = IF Marks(w.trace, "dispatch") # {} THEN 0
                            ELSE IF Marks(w.trace, "queue_empty") # {}
                            THEN Min2(timeouts_in_a_row + 1, TIMEOUT_LIMIT + 1)
                            ELSE timeouts_in_a_row
    /\ seen' = IF ~caps.watch THEN seen
               ELSE IF Marks(w.trace, "jog") # {} THEN {}
               ELSE seen \cup {World}
    /\ lines_since_keyword' =
          IF ~caps.pairs \/ w.thread # "listener" \/ w.TARGET.number_of_empty # 0
          THEN lines_since_keyword
          ELSE IF w.TARGET.buffer # "None" /\ TARGET.buffer = "None" THEN 0
          ELSE Min2(lines_since_keyword + 1, MaxOverrun)
    /\ tries_here' =
          IF ~caps.tries THEN tries_here
          ELSE IF Did(w.trace, "jog", "None") THEN 0
          ELSE IF Did(w.trace, "dispatch", "Signature:") THEN tries_here + 1
          ELSE tries_here

(***************************************************************************)
(* SpecDisable: any sequence of request_disable / release_disable calls    *)
(***************************************************************************)
DisableReasons == {"jogging", "target_reset", "user_request"}
ReleaseReasons == DisableReasons \cup {"CS_disabeled_timeout"}

InitDisable ==
    Start(InitWorld(Grid(1, 1), RefPoint, TRIES_PER_POSITION_cfg,
                    FAULT_VOLTAGE_START_cfg),
          [ShortCaps EXCEPT !.calls = TRUE])

RequestDisable(reason) ==
    /\ Len(CS.disable_requests) < MaxStack
    /\ Step(request_disable(World, reason))

ReleaseDisable(reason) == Step(release_disable(World, reason))

NextDisable ==
    \/ \E reason \in DisableReasons : RequestDisable(reason)
    \/ \E reason \in ReleaseReasons : ReleaseDisable(reason)

SpecDisable == InitDisable /\ [][NextDisable]_vars

\* C1 as stated: in every state reached by any sequence of request_disable /
\* release_disable calls (the empty sequence included), the generator is
\* armed if and only if the disable stack is empty.
C1_ArmedIffStackEmpty == CS.enabled <=> (CS.disable_requests = <<>>)

\* C1, amended: after at least one request_disable / release_disable call the
\* generator is armed if and only if the disable stack is empty, and it is
\* never armed while the stack is non-empty (right after construction it is
\* disarmed although the stack is empty).
C1_ArmedIffStackEmptyAfterCall ==
    /\ CS.enabled => CS.disable_requests = <<>>
    /\ calls > 0 => (CS.enabled <=> (CS.disable_requests = <<>>))

\* a duplicate reason was pushed, a release of an absent reason popped the
\* stack down to one entry, and the generator is still disarmed
C1_Witness_StillHeld ==
    /\ calls >= 4
    /\ Len(CS.disable_requests) = 1
    /\ ~CS.enabled


(***************************************************************************)
(* The threads' steps: listener, dispatch loop, operator                   *)
(***************************************************************************)
\* the world as a thread's code sees it
WorldOf(t) == [World EXCEPT !.thread = t]

\* thread t stands inside a jog() call
InJog(t) == \E k \in 1..Len(in_jog) : in_jog[k].thread = t

\* the listener read a non-empty line (its loop body runs under target_lock)
ListenLine(parseable, line_str, timed_out, arduino_ok) ==
    /\ ~stop_event
    /\ ~InJog("listener")
    /\ Step(listen_line(WorldOf("listener"), parseable, line_str, timed_out,
                        arduino_ok))

\* the listener's read timed out without data
ListenEmpty(arduino_ok) ==
    /\ ~stop_event
    /\ ~InJog("listener")
    /\ Step(_handle_empty_lines(WorldOf("listener"), arduino_ok))

\* the dispatch loop took the next event off the queue
Dispatch(arduino_ok) ==
    /\ ~stop_event
    /\ ~InJog("dispatch")
    /\ event_queue # <<>>
    /\ Step(dispatch(WorldOf("dispatch"), arduino_ok))

\* the same while the motor controllers do not answer
DispatchMotors(motors, arduino_ok) ==
    /\ ~stop_event
    /\ ~InJog("dispatch")
    /\ event_queue # <<>>
    /\ Step(dispatch([WorldOf("dispatch") EXCEPT !.motors = motors],
                     arduino_ok))

\* the dispatch loop's queue get timed out
QueueEmpty(arduino_ok) ==
    /\ ~stop_event
    /\ ~InJog("dispatch")
    /\ event_queue = <<>>
    /\ Step(queue_empty(WorldOf("dispatch"), arduino_ok))

\* thread t's motor command has been carried out: the rest of its jog() call
\* runs, and its caller stops the run if the scan is finished
JogEnd(t) ==
    \E k \in 1..Len(in_jog) :
        /\ in_jog[k].thread = t
        /\ LET w == [WorldOf(t) EXCEPT !.in_jog =
                        SubSeq(in_jog, 1, k - 1) \o
                        SubSeq(in_jog, k + 1, Len(in_jog))]
               j == jog_end(w, in_jog[k].sel)
           IN  Step([j.w EXCEPT !.stop_event = @ \/ j.ret = "True"])

SetPosition == ~stop_event /\ Step(action_set_position(World))

SetTriesPerPosition(new_tries) ==
    ~stop_event /\ Step(action_set_tries_per_position(World, new_tries))

SetVoltage(new_voltage) ==
    ~stop_event /\ Step(action_set_voltage(World, new_voltage))

ResetTarget(arduino_ok) ==
    ~stop_event /\ Step(action_reset_target(World, arduino_ok))

ForceResetTarget(arduino_ok) ==
    ~stop_event /\ Step(action_force_reset_target(World, arduino_ok))

DisableCS == ~stop_event /\ Step(action_disable_CS(World))

(***************************************************************************)
(* SpecBudget: signature events, unparseable lines, raster advances and    *)
(* the operator toggling movement or changing the tries per position       *)
(***************************************************************************)
InitBudget ==
    \E tpp \in 1..MaxTries :
        Start(Running(InitWorld(Grid(1, 0), RefPoint, tpp, LowVoltage)),
              [ShortCaps EXCEPT !.history = FALSE, !.event_queue = 1,
                                !.disable_requests = 2])

NextBudget ==
    \/ \E line_str \in {"Signature:", VALID_SIGNATURE} :
          ListenLine(TRUE, line_str, FALSE, TRUE)
    \/ ListenLine(FALSE, "garbage", FALSE, TRUE)
    \/ Dispatch(TRUE)
    \/ SetPosition
    \/ \E new_tries \in 1..MaxTries : SetTriesPerPosition(new_tries)

SpecBudget == InitBudget /\ [][NextBudget]_vars

\* C2: 0 <= TRIES_LEFT_PER_POSITION <= TRIES_PER_POSITION holds before and
\* after every signature event processed by onSignature, whatever the
\* interleaving with the listener's budget resets, raster advances and the
\* operator's movement toggle and tries-per-position changes.
C2_TriesLeftInRange ==
    /\ 0 <= TRIES_LEFT_PER_POSITION
    /\ TRIES_LEFT_PER_POSITION <= TRIES_PER_POSITION

\* a signature event was processed with movement switched off and the
\* remaining tries are below zero
C2_Witness_NegativeTries ==
    /\ Did(trace, "dispatch", "Signature:")
    /\ CS.enabled
    /\ ~ALLOW_MOVEMENT
    /\ TRIES_LEFT_PER_POSITION < 0


(***************************************************************************)
(* SpecScan: repeated jog() calls over a calibrated grid, no movement      *)
(* errors; the caller stops the run when jog() returns True                *)
(***************************************************************************)
ScanGrids == ((0..MaxGrid) \X (0..MaxGrid)) \cup {<<10, 10>>}

InitScan ==
    \E g \in ScanGrids :
        Start(Running(InitWorld(Grid(g[1], g[2]), RefPoint,
                                TRIES_PER_POSITION_cfg, FAULT_VOLTAGE_START_cfg)),
              ShortCaps)

JogCall ==
    /\ ~stop_event
    /\ LET j == jog(World)
       IN  Step(IF j.ret = "True" THEN [j.w EXCEPT !.stop_event = TRUE] ELSE j.w)

NextScan == JogCall

SpecScan == InitScan /\ [][NextScan]_vars

Cols == (BOUNDARIES.X.LEFT - BOUNDARIES.X.RIGHT) \div STEP_SIZE + 1
Rows == (BOUNDARIES.Y.UP - BOUNDARIES.Y.DOWN) \div STEP_SIZE + 1

\* the k-th cell (k = 1, 2, ...) of the boustrophedon path from (LEFT, UP):
\* rows from UP downwards, even rows towards RIGHT, odd rows towards LEFT
PathCell(k) ==
    LET row == (k - 1) \div Cols
        col == (k - 1) % Cols
    IN  [X |-> IF row % 2 = 0 THEN BOUNDARIES.X.LEFT - col * STEP_SIZE
               ELSE BOUNDARIES.X.RIGHT + col * STEP_SIZE,
         Y |-> BOUNDARIES.Y.UP - row * STEP_SIZE]

\* C3: from (LEFT, UP) with direction 'right', boundaries that are multiples
\* of the step and no movement errors, repeated jog() calls visit every grid
\* cell exactly once in boustrophedon order (direction flips on each row
\* change, Y decreases by one step per row), and jog() returns True exactly
\* when the row is at its end and the next Y step would pass the lower Y
\* boundary, that is when all Cols * Rows cells have been visited.
C3_RasterCoversGridOnce ==
    /\ Len(visited) <= Cols * Rows
    /\ \A k \in 1..Len(visited) : visited[k] = PathCell(k)
    /\ CURRENT_POSITION.X = visited[Len(visited)].X
    /\ CURRENT_POSITION.Y = visited[Len(visited)].Y
    /\ DIRECTION = IF ((Len(visited) - 1) \div Cols) % 2 = 0 THEN "right"
                   ELSE "left"
    /\ stop_event <=> Did(trace, "jog", "True")
    /\ Did(trace, "jog", "True") => Len(visited) = Cols * Rows

\* the scan of X:[10,0], Y:[10,0], step 1 has finished after 121 positions
C3_Witness_Scan121 ==
    /\ stop_event
    /\ Did(trace, "jog", "True")
    /\ Cols = 11 /\ Rows = 11
    /\ Len(visited) = 121


(***************************************************************************)
(* SpecLadder: the listener under runs of unparseable lines, with the      *)
(* dispatch loop advancing the raster in between                           *)
(***************************************************************************)
InitLadder ==
    Start(Running(InitWorld(Grid(1, 0), RefPoint, MaxTries, LowVoltage)),
          [ShortCaps EXCEPT !.event_queue = 1])

NextLadder ==
    \/ ListenLine(FALSE, "garbage", FALSE, TRUE)
    \/ \E line_str \in {VALID_SIGNATURE, BannerTop, BannerEnd} :
          ListenLine(TRUE, line_str, FALSE, TRUE)
    \/ Dispatch(TRUE)

SpecLadder == InitLadder /\ [][NextLadder]_vars

C30_OneStepPerCrossing ==
    [][Marks(trace', "ladder") # {}
        => TARGET.number_of_unparseables_at_position_and_voltage_in_a_row
              = UNPARSEABLE_ROW_LIMIT - 1]_vars

\* the seventh unparseable line in a row has just requested the generator
\* disable, the sixth having switched the baud rate
C30_Witness_StepOnSeventhLine ==
    /\ Did(trace, "ladder", "disable")
    /\ last_step = "disable"
    /\ unparseable_run = UNPARSEABLE_ROW_LIMIT + 1
    /\ TARGET.number_of_unparseables_at_position_and_voltage_in_a_row
          = UNPARSEABLE_ROW_LIMIT + 1
    /\ TARGET.target_state = "CS_DISABLED"


\* C20: after the listener has processed a parseable line (one not consumed
\* by a reset in progress or by banner detection), the target state is NORMAL
\* and the disable stack holds no 'unparseable_signature_check' entry,
\* whatever the state and the number of ladder steps taken before.
C20_ParseableRevertsToNormal ==
    Marks(trace, "parseable") # {}
        => /\ TARGET.target_state = "NORMAL"
           /\ ~Contains(CS.disable_requests, "unparseable_signature_check")

\* a parseable line has just ended a run of unparseable lines during which
\* the ladder disabled the generator twice: one hold is released, the other
\* stays and the generator stays disarmed
C20_Witness_HoldLeftAfterParseable ==
    /\ Marks(trace, "parseable") # {}
    /\ TARGET.target_state = "NORMAL"
    /\ TARGET.number_of_unparseables_at_position_and_voltage_in_a_row = 0
    /\ Contains(CS.disable_requests, "unparseable_signature_check")
    /\ ~CS.enabled


(***************************************************************************)
(* SpecReset: target resets (start-up, operator, silent target) and the    *)
(* listener following the reset banner                                     *)
(***************************************************************************)
InitReset ==
    Start(InitWorld(Grid(1, 0), RefPoint, MaxTries, FAULT_VOLTAGE_START_cfg),
          [ShortCaps EXCEPT !.number_of_empty = EMPTY_LIMIT + MaxOverrun,
                            !.event_queue = 1])

NextReset ==
    \/ ResetTarget(TRUE)
    \/ \E arduino_ok \in BOOLEAN : ForceResetTarget(arduino_ok)
    \/ ListenEmpty(TRUE)
    \/ \E line_str \in {BannerTop, BannerEnd, VALID_SIGNATURE} :
          \E timed_out \in BOOLEAN : ListenLine(TRUE, line_str, timed_out, TRUE)
    \/ Dispatch(TRUE)

SpecReset == InitReset /\ [][NextReset]_vars

\* C5: once the banner's trailing line has moved the listener from
\* IN_FIRST_RESET (IN_SECOND_RESET) to AFTER_FIRST_RESET (AFTER_SECOND_RESET),
\* the disable stack contains no 'target_reset' entry, however many resets
\* were requested before the banner arrived.
C5_ResetHoldCleared ==
    TARGET.target_state \in {"AFTER_FIRST_RESET", "AFTER_SECOND_RESET"}
        => ~Contains(CS.disable_requests, "target_reset")

\* the banner has just completed the first reset, and a 'target_reset' hold
\* is still on the stack: the generator stays disarmed
C5_Witness_HoldLeft ==
    /\ Did(trace, "complete_reset", "AFTER_FIRST_RESET")
    /\ TARGET.target_state = "AFTER_FIRST_RESET"
    /\ CS.disable_requests = <<"target_reset">>
    /\ ~CS.enabled


\* C40: every 'target_reset' hold pushed by SerialTarget.reset() is released
\* before the listener is back in normal operation: when a parseable line
\* has been handled and the listener is in NORMAL, no 'target_reset' entry
\* is on the disable stack.
C40_ResetHoldReleased ==
    (Marks(trace, "parseable") # {} /\ TARGET.target_state = "NORMAL")
        => ~Contains(CS.disable_requests, "target_reset")

\* the target answered the reset with an ordinary signature line instead of
\* its banner: _reset_state_machine has set NORMAL, the hold of reset() is
\* still on the stack and the generator stays disarmed
C40_Witness_NormalWithHold ==
    /\ Did(trace, "parseable", VALID_SIGNATURE)
    /\ TARGET.target_state = "NORMAL"
    /\ CS.disable_requests = <<"target_reset">>
    /\ ~CS.enabled
    /\ chipshouter.state = "disarmed"


\* C19: when the first reset is completed by the reset timeout (no banner
\* end seen), exactly one further reset is triggered and the listener is in
\* STARTED_SECOND_RESET afterwards; when the second reset is completed by the
\* timeout the listener is in AFTER_SECOND_RESET and no reset is triggered.
C19_OneFurtherReset ==
    [][/\ (/\ TARGET.target_state = "IN_FIRST_RESET"
           /\ Did(trace', "complete_reset", "AFTER_FIRST_RESET")
           /\ Marks(trace', "reset") # {})
          => /\ Cardinality(Marks(trace', "reset")) = 1
             /\ TARGET'.target_state = "STARTED_SECOND_RESET"
       /\ (/\ TARGET.target_state = "IN_SECOND_RESET"
           /\ Did(trace', "complete_reset", "AFTER_SECOND_RESET"))
          => /\ Marks(trace', "reset") = {}
             /\ TARGET'.target_state = "AFTER_SECOND_RESET"]_vars

\* the first reset has just timed out and the reset it triggered is tracked
\* as a first reset again
C19_Witness_RetriggeredAsFirst ==
    /\ Did(trace, "complete_reset", "AFTER_FIRST_RESET")
    /\ Did(trace, "reset", "ok")
    /\ TARGET.target_state = "STARTED_FIRST_RESET"
    /\ Contains(CS.disable_requests, "target_reset")


\* the listener states in which a target reset is pending
ResetPending ==
    TARGET.target_state \in {"STARTED_FIRST_RESET", "IN_FIRST_RESET",
                             "STARTED_SECOND_RESET", "IN_SECOND_RESET"}

\* C21: while a target reset is pending (STARTED_FIRST_RESET, IN_FIRST_RESET,
\* STARTED_SECOND_RESET or IN_SECOND_RESET) the generator is not armed,
\* whether the reset was triggered by the program or detected from the
\* banner.
C21_DisarmedWhileResetPending == ResetPending => ~CS.enabled

\* the banner's first line arrived without a reset having been triggered:
\* the listener follows the reset, nothing holds the generator disabled
C21_Witness_ArmedInDetectedReset ==
    /\ TARGET.target_state = "IN_FIRST_RESET"
    /\ CS.enabled
    /\ CS.disable_requests = <<>>
    /\ chipshouter.state = "armed"


(***************************************************************************)
(* SpecChange: change(voltage=v) and change(deadtime=d) calls              *)
(***************************************************************************)
VoltageInputs ==
    {k * FAULT_VOLTAGE_INCREMENTS : k \in (0 - 1)..MaxVoltageStep}
        \cup {MIN_VOLTAGE - 1, MAX_VOLTAGE + 1}
DeadtimeInputs == {0, 1, 6, 10, 17, DEAD_TIME_START, 1001}

InitChange ==
    Start(Running(InitWorld(Grid(1, 0), RefPoint, TRIES_PER_POSITION_cfg,
                            FAULT_VOLTAGE_START_cfg)),
          ShortCaps)

ChangeVoltage(voltage) == Step(change(World, None, Some(voltage), None))

ChangeDeadtime(deadtime) == Step(change(World, None, None, Some(deadtime)))

NextChange ==
    \/ \E voltage \in VoltageInputs : ChangeVoltage(voltage)
    \/ \E deadtime \in DeadtimeInputs : ChangeDeadtime(deadtime)

SpecChange == InitChange /\ [][NextChange]_vars

\* the requested voltage is one the claim says is rejected
MustReject(v) ==
    \/ v < MIN_VOLTAGE
    \/ v > MAX_VOLTAGE
    \/ (v \div 30) + 1 > DEAD_TIME

\* C6: change(voltage=v) with v below MIN_VOLTAGE, above MAX_VOLTAGE, or with
\* (v // 30) + 1 greater than the current dead-time leaves both the recorded
\* voltage (FAULT_VOLTAGE) and the device's set voltage as they were.
C6_RejectedVoltageKeepsState ==
    [][\A i \in Marks(trace', "change_voltage") :
          MustReject(trace'[i].arg) =>
              /\ FAULT_VOLTAGE' = FAULT_VOLTAGE
              /\ chipshouter'.voltage = chipshouter.voltage]_vars

\* a voltage inside [MIN_VOLTAGE, MAX_VOLTAGE] was just refused because the
\* dead-time (lowered to 6 ms before) is too short for it
C6_Witness_DeadtimeRefusal ==
    /\ DEAD_TIME = 6
    /\ \E i \in Marks(trace, "change_voltage") :
          /\ trace[i].arg >= MIN_VOLTAGE /\ trace[i].arg <= MAX_VOLTAGE
          /\ (trace[i].arg \div 30) + 1 > DEAD_TIME
          /\ FAULT_VOLTAGE # trace[i].arg
    /\ chipshouter.voltage = FAULT_VOLTAGE


(***************************************************************************)
(* SpecFaults: valid and faulty signatures dispatched while the operator   *)
(* disables and re-enables the generator                                   *)
(***************************************************************************)
InitFaults ==
    Start(Running(InitWorld(Grid(1, 0), RefPoint, MaxTries,
                            FAULT_VOLTAGE_START_cfg)),
          [ShortCaps EXCEPT !.history = FALSE])

NextFaults ==
    \/ \E line_str \in {"Signature:", "SIG_FAULTY", VALID_SIGNATURE} :
          ListenLine(TRUE, line_str, FALSE, TRUE)
    \/ Dispatch(TRUE)
    \/ DisableCS

SpecFaults == InitFaults /\ [][NextFaults]_vars

\* C22: every 'Signature:' event taken from the queue whose payload differs
\* from VALID_SIGNATURE appends exactly one record to CONFIRMED_FAULTS,
\* whatever the generator's armed state when the event is processed.
C22_DifferingSignatureRecorded ==
    [][(/\ event_queue # <<>>
        /\ Head(event_queue).keyword = "Signature:"
        /\ Head(event_queue).payload # VALID_SIGNATURE
        /\ Did(trace', "dispatch", "Signature:"))
          => /\ Len(CONFIRMED_FAULTS') = Len(CONFIRMED_FAULTS) + 1
             /\ CONFIRMED_FAULTS'[Len(CONFIRMED_FAULTS')].signature
                    = Head(event_queue).payload]_vars

\* a faulty signature has just been dispatched while the operator held the
\* generator disabled: it was counted as skipped and no record was made
C22_Witness_FaultSkippedWhileDisabled ==
    /\ Did(trace, "dispatch", "Signature:")
    /\ Did(trace, "skipped", "SIG_FAULTY")
    /\ CS.disable_requests = <<"user_request">>
    /\ CS_DISABLED_FOR_COUNTER = 1
    /\ CONFIRMED_FAULTS = <<>>


(***************************************************************************)
(* SpecTimeouts: the dispatch loop between queue timeouts and events       *)
(***************************************************************************)
InitTimeouts ==
    Start(Running(InitWorld(Grid(1, 0), RefPoint, MaxTries,
                            FAULT_VOLTAGE_START_cfg)),
          [ShortCaps EXCEPT !.history = FALSE, !.event_queue = 1,
                            !.timeout_counter = TIMEOUT_LIMIT,
                            !.disable_requests = 2])

NextTimeouts ==
    \/ QueueEmpty(TRUE)
    \/ \E line_str \in TimingLines : ListenLine(TRUE, line_str, FALSE, TRUE)
    \/ Dispatch(TRUE)

SpecTimeouts == InitTimeouts /\ [][NextTimeouts]_vars

\* C23: the dispatch loop resets the target because of queue timeouts only
\* after 100 consecutive timeouts, that is 100 timeouts with no event
\* received in between.
C23_ResetAfterConsecutiveTimeouts ==
    [][Marks(trace', "queue_empty") # {} /\ Marks(trace', "reset") # {}
          => timeouts_in_a_row' >= TIMEOUT_LIMIT]_vars

\* the target has just been reset on the first timeout after an event: the
\* hundred timeouts counted before lay before that event
C23_Witness_ResetOnFirstTimeoutAfterEvent ==
    /\ Marks(trace, "queue_empty") # {}
    /\ Did(trace, "reset", "ok")
    /\ timeouts_in_a_row = 1
    /\ timeout_counter = 0
    /\ TARGET.target_state = "STARTED_FIRST_RESET"


(***************************************************************************)
(* SpecRecover: handlers that raise because the motor controllers are gone *)
(* and worker_loop's recovery from it                                      *)
(***************************************************************************)
InitRecover ==
    Start(Running(InitWorld(Grid(1, 0), RefPoint, MaxTries,
                            FAULT_VOLTAGE_START_cfg)),
          [ShortCaps EXCEPT !.history = FALSE, !.event_queue = 1])

NextRecover ==
    \/ \E line_str \in {"Signature:", "SIG_FAULTY", BannerTop, BannerEnd} :
          ListenLine(TRUE, line_str, FALSE, TRUE)
    \/ Dispatch(TRUE)
    \/ \E motors \in {"gone", "flaky"} :
          \E arduino_ok \in BOOLEAN : DispatchMotors(motors, arduino_ok)

SpecRecover == InitRecover /\ [][NextRecover]_vars

\* the recovery steps appear in tr in the order target reset, axis
\* re-initialisation, generator self-heal
RecoveryInOrder(tr) ==
    \E i, j, k \in 1..Len(tr) :
        /\ i < j /\ j < k
        /\ tr[i].op = "reset"
        /\ tr[j].op = "selfheal_axes"
        /\ tr[k].op = "cs_selfheal"

\* C24: when a handler raises, recovery runs target reset, motion-axis
\* re-initialisation, generator self-heal in that order; if one of these
\* steps fails (axis re-initialisation finds no axes, the reset trigger does
\* not answer) the state is checkpointed and exported and the stop flag is
\* set.
C24_RecoveryFailureStops ==
    [][Marks(trace', "raise") # {}
          => /\ RecoveryInOrder(trace')
             /\ (\/ Did(trace', "reset", "failed")
                 \/ \E i \in Marks(trace', "cs_selfheal") :
                       \E j \in 1..(i - 1) :
                          trace'[j] = [op |-> "selfheal_axes", arg |-> "failed"])
                  => /\ stop_event'
                     /\ Marks(trace', "save_checkpoint") # {}]_vars

\* a handler has just raised, recovery found no axes, and the run goes on:
\* no stop flag, no checkpoint
C24_Witness_RunsOnWithoutAxes ==
    /\ Did(trace, "raise", "store_positions")
    /\ RecoveryInOrder(trace)
    /\ trace[Len(trace) - 1] = [op |-> "selfheal_axes", arg |-> "failed"]
    /\ Did(trace, "reset", "ok")
    /\ ~stop_event
    /\ ~checkpoint_file.some


(***************************************************************************)
(* SpecAutoRelease: signatures arriving while the generator is held        *)
(* disabled by the operator or by a pending target reset                   *)
(***************************************************************************)
InitAutoRelease ==
    Start(Running(InitWorld(Grid(1, 0), RefPoint, MaxTries,
                            FAULT_VOLTAGE_START_cfg)),
          [ShortCaps EXCEPT !.history = FALSE, !.event_queue = 1,
                            !.disable_requests = 2,
                            !.CS_DISABLED_FOR_COUNTER =
                                CS_DISABLED_LIMIT + MaxOverrun])

NextAutoRelease ==
    \/ ListenLine(TRUE, VALID_SIGNATURE, FALSE, TRUE)
    \/ Dispatch(TRUE)
    \/ DisableCS
    \/ ResetTarget(TRUE)

SpecAutoRelease == InitAutoRelease /\ [][NextAutoRelease]_vars

\* onSignature has just called release_disable("CS_disabeled_timeout")
AutoReleased(tr, counter) ==
    Marks(tr, "skipped") # {} /\ counter > CS_DISABLED_LIMIT

\* C28: a release_disable(reason) for a reason that is not on the disable
\* stack (the automatic release after more than 200 skipped signatures)
\* removes no other reason's hold and does not arm the generator while other
\* holds ('user_request', 'target_reset') are outstanding.
C28_AbsentReasonReleasesNothing ==
    [][AutoReleased(trace', CS_DISABLED_FOR_COUNTER')
         /\ ~Contains(CS.disable_requests, "CS_disabeled_timeout")
         /\ CS.disable_requests # <<>>
          => /\ CS'.disable_requests = CS.disable_requests
             /\ ~CS'.enabled]_vars

\* the 201st signature skipped under the operator's hold has just released
\* that hold and armed the generator
C28_Witness_OperatorHoldOverridden ==
    /\ AutoReleased(trace, CS_DISABLED_FOR_COUNTER)
    /\ CS_DISABLED_FOR_COUNTER = CS_DISABLED_LIMIT + 1
    /\ CS.disable_requests = <<>>
    /\ CS.enabled
    /\ chipshouter.state = "armed"
    /\ TARGET.target_state = "NORMAL"


(***************************************************************************)
(* SpecQueue: the listener enqueues signature and alarm events, the        *)
(* dispatch loop handles them; the raster or the voltage may change in     *)
(* between                                                                 *)
(***************************************************************************)
InitQueue ==
    Start(Running(InitWorld(Grid(1, 0), RefPoint, 1, FAULT_VOLTAGE_START_cfg)),
          [ShortCaps EXCEPT !.records = 1, !.history = FALSE])

NextQueue ==
    \/ \E line_str \in {"Signature:", "Alarm:", "SIG_FAULTY", "ALARM_A"} :
          ListenLine(TRUE, line_str, FALSE, TRUE)
    \/ Dispatch(TRUE)
    \/ \E new_voltage \in {LowVoltage, FAULT_VOLTAGE_START_cfg} :
          SetVoltage(new_voltage)

SpecQueue == InitQueue /\ [][NextQueue]_vars

\* the snapshot _gather_signature_params would take in the current state
SnapshotNow ==
    Some([position |-> CURRENT_POSITION,
          voltage_set |-> chipshouter.voltage,
          voltage_measured |-> chipshouter.measured,
          pattern |-> chipshouter.pat_wave])

NeedsSnapshot(ev) == ev.keyword \in {"Signature:", "Alarm:"}

\* C9: the dispatch loop handles target events in the order the listener
\* enqueued them, and every 'Signature:' or 'Alarm:' event carries the
\* context snapshot (position, set/measured voltage, pattern) taken when the
\* listener received the line; the fault or alarm record made from the event
\* shows that snapshot.
C9_FifoWithSnapshot ==
    [][/\ \* the dispatch loop takes the head, the listener appends at the tail
          \/ event_queue' = event_queue
          \/ /\ event_queue # <<>>
             /\ event_queue' = Tail(event_queue)
             /\ Did(trace', "dispatch", Head(event_queue).keyword)
          \/ /\ event_queue' # <<>>
             /\ event_queue = SubSeq(event_queue', 1, Len(event_queue') - 1)
             /\ LET ev == event_queue'[Len(event_queue')]
                IN  NeedsSnapshot(ev) => ev.sig_params = SnapshotNow
       /\ \* a new record shows the snapshot of the event it was made from
          Len(CONFIRMED_FAULTS') > Len(CONFIRMED_FAULTS) =>
              /\ Head(event_queue).sig_params.some
              /\ CONFIRMED_FAULTS'[Len(CONFIRMED_FAULTS')].sig_params
                    = Head(event_queue).sig_params
       /\ Len(CONFIRMED_ALARMS') > Len(CONFIRMED_ALARMS) =>
              /\ Head(event_queue).sig_params.some
              /\ CONFIRMED_ALARMS'[Len(CONFIRMED_ALARMS')].sig_params
                    = Head(event_queue).sig_params
      ]_vars

\* an alarm record without position and voltage has been stored
C9_Witness_AlarmWithoutContext ==
    /\ Did(trace, "dispatch", "Alarm:")
    /\ CONFIRMED_ALARMS # <<>>
    /\ ~CONFIRMED_ALARMS[Len(CONFIRMED_ALARMS)].sig_params.some


(***************************************************************************)
(* Generator recovery against a device that fails on every call: the       *)
(* loops of CS_Connector.connect, reset, selfheal and arm, one iteration   *)
(* per step, and handleException.  gen.stack holds the frames of the       *)
(* calls in progress, the innermost last.                                  *)
(***************************************************************************)
SELFHEAL_LIMIT == 20
CONNECT_LIMIT == 3
ARM_LIMIT == 3

\* how the device fails: every call raises a serial (OSError) exception, or
\* every call raises an exception of the device library, or the device is
\* gone from the bus so that no port is found for it either
DeviceModes == {"io_error", "lib_error", "unplugged"}

RaisesOSError(w) == w.gen.device \in {"io_error", "unplugged"}

\* CS_Connector.is_connected(): status() answered, no exception ("busy": the
\* device answers status() but its ready_for_commands() never returns)
is_connected(w) == w.gen.device \in {"ok", "busy"}

\* a fresh frame; rounds counts the passes of reset()'s loop, whose own
\* counter i is never advanced
Frame(fn, poeh, retry) ==
    [fn |-> fn, i |-> 0, failed_on |-> "", poeh |-> poeh, retry |-> retry,
     at |-> "start", rounds |-> 0]

Top(w) == w.gen.stack[Len(w.gen.stack)]
Push(w, f) == [w EXCEPT !.gen.stack = Append(@, f)]
Pop(w) == [w EXCEPT !.gen.stack = SubSeq(@, 1, Len(@) - 1)]
SetTop(w, f) == [w EXCEPT !.gen.stack[Len(w.gen.stack)] = f]

\* find_port(): no port for the serial number sets the stop flag
find_port(w) ==
    IF w.gen.device = "unplugged" THEN [w EXCEPT !.stop_event = TRUE] ELSE w

\* one pass of connect()'s loop: give up after the fourth attempt
CS_connect_iteration(w) ==
    LET f == Top(w)
    IN  IF is_connected(w) \/ f.i > CONNECT_LIMIT THEN Pop(w)
        ELSE Note(find_port(SetTop(w, [f EXCEPT !.i = @ + 1])),
                  "retry", "connect")

\* one pass of reset()'s "while True": an OSError on the reset bit leads to
\* connect() and another pass; any other exception leaves the loop
CS_reset_iteration(w) ==
    LET f == Top(w)
    IN  IF is_connected(w) THEN Pop(w)
        ELSE IF RaisesOSError(w)
        THEN Note(Push(SetTop(w, [f EXCEPT !.rounds = Min2(@ + 1, MaxRounds)]),
                       Frame("connect", FALSE, "")),
                  "retry", "reset")
        ELSE Pop(w)

\* one pass of selfheal()'s "while True": past SELFHEAL_LIMIT passes the
\* stop flag is set and the pass goes on; a disconnected device is
\* reconnected (connect, then reset as it stays disconnected) the first
\* time and reset every time after
CS_selfheal_iteration(w) ==
    LET f == Top(w)
        w1 == IF f.i > SELFHEAL_LIMIT THEN [w EXCEPT !.stop_event = TRUE]
              ELSE w
        i1 == Min2(f.i + 1, SELFHEAL_LIMIT + MaxOverrun)
    IN  IF is_connected(w1) THEN Pop(w1)
        ELSE IF f.failed_on = "connection"
        THEN Note(Push(SetTop(w1, [f EXCEPT !.i = i1]),
                       Frame("reset", FALSE, "")),
                  "retry", "selfheal")
        ELSE Note(Push(Push(SetTop(w1, [f EXCEPT !.i = i1,
                                                 !.failed_on = "connection"]),
                            Frame("reset", FALSE, "")),
                       Frame("connect", FALSE, "")),
                  "retry", "selfheal")

\* arm(a, reason) entered: the wish is recorded before the device is asked
CS_arm_call(w, a) ==
    Push([w EXCEPT !.CS.enabled = a,
                   !.CS.disable_requests = IF a THEN <<>> ELSE @],
         Frame("arm", FALSE, ""))

\* one pass of arm()'s loop: reading the state raises, so the pass is
\* repeated; after the fourth pass the state is read once more for the
\* message of handleException and that exception leaves arm()
CS_arm_iteration(w) ==
    LET f == Top(w)
    IN  IF f.i > ARM_LIMIT THEN Pop(w)
        ELSE Note(SetTop(w, [f EXCEPT !.i = @ + 1]), "retry", "arm")

\* handleException(e, retry_fun, part_of_exception_handling): recovery
\* (reset, or selfheal for a first exception), then the retry unless the
\* stop flag is set.  __getattr__ takes no part_of_exception_handling, so
\* its retry raises TypeError and is answered by reset(); getInfo raises
\* again and calls handleException itself.
handleException(w) ==
    LET f == Top(w)
    IN  CASE f.at = "start" ->
               Push(SetTop(w, [f EXCEPT !.at = "recovered"]),
                    IF f.poeh THEN Frame("reset", FALSE, "")
                    ELSE Frame("selfheal", TRUE, ""))
          [] f.at = "recovered" ->
               IF w.stop_event THEN Pop(w)
               ELSE Note(Push(SetTop(w, [f EXCEPT !.at = "done"]),
                              IF f.retry = "__getattr__"
                              THEN Frame("reset", FALSE, "")
                              ELSE Frame("handleException", TRUE, f.retry)),
                         "retry", f.retry)
          [] OTHER -> Pop(w)

(***************************************************************************)
(* SpecGen: a thread calls into the connector while the device fails on    *)
(* every call; the operator may quit at any time                           *)
(***************************************************************************)
InitGen ==
    \E d \in DeviceModes :
        Start([Running(InitWorld(Grid(1, 1), RefPoint, TRIES_PER_POSITION_cfg,
                                 FAULT_VOLTAGE_START_cfg))
                 EXCEPT !.gen.device = d],
              [ShortCaps EXCEPT !.history = FALSE])

Idle == gen.stack = <<>>
Running_fn(fn) == gen.stack # <<>> /\ Top(World).fn = fn

\* jog(), worker_loop's handleException and action_selfheal call selfheal()
CallSelfheal ==
    ~stop_event /\ Idle /\ Step(Push(World, Frame("selfheal", FALSE, "")))

\* action_reset_CS calls reset()
CallReset ==
    ~stop_event /\ Idle /\ Step(Push(World, Frame("reset", FALSE, "")))

\* request_disable / release_disable call arm()
CallArm(a) == ~stop_event /\ Idle /\ Step(CS_arm_call(World, a))

\* reading CS.pat_wave or CS.voltage raises in __getattr__
CallGetattr ==
    ~stop_event /\ Idle
    /\ Step(Push(World, Frame("handleException", TRUE, "__getattr__")))

\* getInfo() raises while printing the device
CallGetInfo ==
    ~stop_event /\ Idle
    /\ Step(Push(World, Frame("handleException", FALSE, "getInfo")))

SelfhealIteration ==
    Running_fn("selfheal") /\ Step(CS_selfheal_iteration(World))

ResetIteration == Running_fn("reset") /\ Step(CS_reset_iteration(World))

ConnectIteration == Running_fn("connect") /\ Step(CS_connect_iteration(World))

ArmIteration == Running_fn("arm") /\ Step(CS_arm_iteration(World))

HandleException ==
    /\ Running_fn("handleException")
    /\ Len(gen.stack) < MaxDepth
    /\ Step(handleException(World))

\* action_quit: the stop flag is set while a call may still be in progress
Quit == ~stop_event /\ Step([World EXCEPT !.stop_event = TRUE])

\* the steps of the thread that is inside the connector
GenRun ==
    \/ SelfhealIteration
    \/ ResetIteration
    \/ ConnectIteration
    \/ ArmIteration
    \/ HandleException

NextGen ==
    \/ CallSelfheal
    \/ CallReset
    \/ \E a \in BOOLEAN : CallArm(a)
    \/ CallGetattr
    \/ CallGetInfo
    \/ GenRun
    \/ Quit

\* a thread inside a loop of the connector keeps running: its passes are
\* separated by time.sleep only
SpecGen == InitGen /\ [][NextGen]_vars /\ WF_vars(GenRun)

\* C7: against a device that fails on every call, every call into the
\* connector's retry loops (reset, selfheal, handleException's retry) makes
\* a bounded number of retries and then returns or sets the stop flag: a
\* call in progress leads to its return or to the stop flag being set.
C7_RetryLoopsEnd == (~Idle) ~> (Idle \/ stop_event)

\* reset() has gone round its loop MaxRounds times against a device that
\* raises serial errors, it is still in the loop and the stop flag is unset
C7_Witness_ResetStillLooping ==
    /\ gen.device = "io_error"
    /\ ~stop_event
    /\ \E k \in 1..Len(gen.stack) :
          gen.stack[k].fn = "reset" /\ gen.stack[k].rounds = MaxRounds

\* C8: once the stop flag is set, no loop of the connector (selfheal, arm,
\* reset, connect) makes a further pass and handleException makes no retry.
C8_NoRetryAfterStop == [][stop_event => Marks(trace', "retry") = {}]_vars

\* selfheal() set the stop flag itself after SELFHEAL_LIMIT passes and has
\* made another pass since
C8_Witness_SelfhealPastStop ==
    /\ stop_event
    /\ Running_fn("reset")
    /\ Did(trace, "retry", "selfheal")
    /\ \E k \in 1..Len(gen.stack) :
          gen.stack[k].fn = "selfheal" /\ gen.stack[k].i > SELFHEAL_LIMIT + 1


\* C17: a call to selfheal() makes at most SELFHEAL_LIMIT passes of its
\* diagnostic loop, whatever the device does.
C17_SelfhealPassesBounded ==
    \A k \in 1..Len(gen.stack) :
        gen.stack[k].fn = "selfheal" => gen.stack[k].i <= SELFHEAL_LIMIT

\* a selfheal() call is in its loop after two passes more than the limit
C17_Witness_SelfhealBeyondLimit ==
    \E k \in 1..Len(gen.stack) :
        /\ gen.stack[k].fn = "selfheal"
        /\ gen.stack[k].i = SELFHEAL_LIMIT + MaxOverrun
        /\ gen.device # "ok"

\* C18: against a device that fails every attempt, connect() makes at most
\* CONNECT_LIMIT connection attempts.
C18_ConnectAttemptsCapped ==
    \A k \in 1..Len(gen.stack) :
        gen.stack[k].fn = "connect" => gen.stack[k].i <= CONNECT_LIMIT

\* connect() has made its fourth attempt on a port that raises serial errors
C18_Witness_FourthAttempt ==
    /\ gen.device = "io_error"
    /\ Running_fn("connect")
    /\ Top(World).i = CONNECT_LIMIT + 1
    /\ Did(trace, "retry", "connect")


(***************************************************************************)
(* SpecThreads: the listener and the dispatch loop side by side, a jog()   *)
(* call taking two steps (up to the motor command, and from the motor's    *)
(* stop on).  The listener runs its loop body under target_lock; the       *)
(* dispatch loop, onSignature, jog and move take no lock.                  *)
(***************************************************************************)
FloorVoltage == MIN_VOLTAGE + FAULT_VOLTAGE_INCREMENTS

InitThreads ==
    \E tpp \in 1..MaxTries :
        Start(Running(InitWorld(Grid(1, 1), RefPoint, tpp, FloorVoltage)),
              [ShortCaps EXCEPT !.history = FALSE, !.event_queue = 1,
                                !.disable_requests = 2, !.records = 1,
                                !.split_jog = TRUE])

NextThreads ==
    \/ \E line_str \in {"Signature:", VALID_SIGNATURE} :
          ListenLine(TRUE, line_str, FALSE, TRUE)
    \/ ListenLine(FALSE, "garbage", FALSE, TRUE)
    \/ Dispatch(TRUE)
    \/ \E t \in {"listener", "dispatch"} : JogEnd(t)

SpecThreads == InitThreads /\ [][NextThreads]_vars

\* target_lock is held by the listener for the whole of its loop body, so
\* also while it stands inside jog(); no other thread takes it around jog()
target_lock_holder == IF InJog("listener") THEN "listener" ELSE "none"

\* C10: a jog()/move() started by the listener thread never overlaps with a
\* jog()/move() started by the dispatch thread.
C10_JogsNeverOverlap == ~(InJog("listener") /\ InJog("dispatch"))

\* both threads stand inside jog(): each has reset the try budget and the
\* search phase, both have chosen the same next position from the same
\* CURRENT_POSITION, and only the listener holds target_lock
C10_Witness_TwoJogs ==
    /\ Len(in_jog) = 2
    /\ in_jog[1].thread = "dispatch"
    /\ in_jog[2].thread = "listener"
    /\ in_jog[1].sel = in_jog[2].sel
    /\ target_lock_holder = "listener"
    /\ CS.disable_requests = <<"jogging", "jogging">>


(***************************************************************************)
(* SpecPhase: a position with the adaptive search switched on (twelve      *)
(* tries, variable high time): signatures, unparseable lines at the        *)
(* voltage floor, and a generator that may drop into its fault state       *)
(***************************************************************************)
AdaptiveTries == 12

InitPhase ==
    Start([Running(InitWorld(Grid(1, 0), RefPoint, AdaptiveTries, FloorVoltage))
             EXCEPT !.VARIABLE_HIGH_TIME = TRUE],
          [ShortCaps EXCEPT !.history = FALSE, !.event_queue = 1,
                            !.disable_requests = 2, !.records = 1])

\* the ChipSHOUTER latches a fault on its own (selfheal() tests for it)
DeviceFault ==
    /\ ~stop_event
    /\ chipshouter.state # "fault"
    /\ Step([World EXCEPT !.chipshouter.state = "fault"])

NextPhase ==
    \/ \E line_str \in {"Signature:", VALID_SIGNATURE} :
          ListenLine(TRUE, line_str, FALSE, TRUE)
    \/ ListenLine(FALSE, "garbage", FALSE, TRUE)
    \/ Dispatch(TRUE)
    \/ DeviceFault

SpecPhase == InitPhase /\ [][NextPhase]_vars

\* C11: VARIABLE_STATE only ever changes 0 to 1, 1 to 2 or back to 0, and it
\* is 0 whenever a position has completed and the try budget was reset to
\* full: after every jog() call, whatever it returned.
C11_PhaseDiscipline ==
    [][/\ \/ VARIABLE_STATE' = VARIABLE_STATE
          \/ VARIABLE_STATE' = 0
          \/ VARIABLE_STATE = 0 /\ VARIABLE_STATE' = 1
          \/ VARIABLE_STATE = 1 /\ VARIABLE_STATE' = 2
       /\ Marks(trace', "jog") # {} => VARIABLE_STATE' = 0]_vars

\* C34: whenever jog() is entered with the adaptive search enabled and
\* TRIES_PER_POSITION at least 12, VARIABLE_STATE is 2: the consistency check
\* at the start of jog() never fires.
C34_JogEnteredInPhaseTwo == Marks(trace, "jog_check") = {}

\* the listener has abandoned the position at the voltage floor: it set
\* VARIABLE_STATE to 0 and called jog(), whose check fired
C34_Witness_CheckFiresAtFloor ==
    /\ Did(trace, "jog_check", 0)
    /\ Marks(trace, "unparseable") # {}
    /\ Marks(trace, "jog") # {}
    /\ TRIES_PER_POSITION = AdaptiveTries
    /\ VARIABLE_HIGH_TIME

\* jog() found the generator in its fault state and returned False: the try
\* budget is full again and the phase is still 2
C11_Witness_RepeatedInPhaseTwo ==
    /\ Did(trace, "jog", "False")
    /\ TRIES_LEFT_PER_POSITION = TRIES_PER_POSITION
    /\ VARIABLE_STATE = 2


(***************************************************************************)
(* SpecRange: adaptive adjustments, unparseable-driven voltage reductions, *)
(* position advances and change() calls with values at and beyond the      *)
(* limits, starting at the lowest and at the highest voltage               *)
(***************************************************************************)
InitRange ==
    \E volt \in {FloorVoltage, MAX_VOLTAGE} :
        Start([Running(InitWorld(Grid(1, 0), RefPoint, AdaptiveTries, volt))
                 EXCEPT !.VARIABLE_HIGH_TIME = TRUE, !.VARIABLE_VOLTAGE = TRUE],
              [ShortCaps EXCEPT !.history = FALSE, !.event_queue = 1,
                                !.disable_requests = 1, !.records = 1,
                                !.trace = FALSE,
                                !.reductions = MaxReductions])

RangeHighTimes == {MAX_HIGH_TIME_ns,
                   MAX_HIGH_TIME_ns + MIN_HIGH_TIME_ns}
RangeVoltages == {MIN_VOLTAGE - FAULT_VOLTAGE_INCREMENTS,
                  MAX_VOLTAGE + FAULT_VOLTAGE_INCREMENTS}

ChangeHighTime(timeHigh_ns) ==
    ~stop_event /\ Step(change(World, Some(timeHigh_ns), None, None))

ChangeVoltageTo(voltage) ==
    ~stop_event /\ Step(change(World, None, Some(voltage), None))

NextRange ==
    \/ \E line_str \in {"Signature:", VALID_SIGNATURE} :
          ListenLine(TRUE, line_str, FALSE, TRUE)
    \/ ListenLine(FALSE, "garbage", FALSE, TRUE)
    \/ Dispatch(TRUE)
    \/ \E timeHigh_ns \in RangeHighTimes : ChangeHighTime(timeHigh_ns)
    \/ \E voltage \in RangeVoltages : ChangeVoltageTo(voltage)

SpecRange == InitRange /\ [][NextRange]_vars

HighTime_ns == CountOnes(FAULT_PATTERN) * MIN_HIGH_TIME_ns

\* C12: in every reachable state MIN_VOLTAGE <= FAULT_VOLTAGE <= MAX_VOLTAGE
\* and the high time encoded in FAULT_PATTERN (ones times 20 ns) lies in
\* [MIN_HIGH_TIME_ns, MAX_HIGH_TIME_ns].
C12_ParametersInRange ==
    /\ MIN_VOLTAGE <= FAULT_VOLTAGE
    /\ FAULT_VOLTAGE <= MAX_VOLTAGE
    /\ MIN_HIGH_TIME_ns <= HighTime_ns
    /\ HighTime_ns <= MAX_HIGH_TIME_ns

\* the second adaptive adjustment has brought the voltage down to the
\* minimum and shortened the pulse
C12_Witness_AdaptedToMinimum ==
    /\ VARIABLE_STATE = 2
    /\ FAULT_VOLTAGE = MIN_VOLTAGE
    /\ HighTime_ns = high_time_start - FAULT_PATTERN_INCREMENTS


(***************************************************************************)
(* SpecValidate: change() called with one parameter at a time, with valid  *)
(* and invalid values, on an armed generator                               *)
(***************************************************************************)
HighTimeInputs == {0 - MIN_HIGH_TIME_ns, 0, 10, MIN_HIGH_TIME_ns - 1,
                   MIN_HIGH_TIME_ns, high_time_start, MAX_HIGH_TIME_ns,
                   MAX_HIGH_TIME_ns + 1}
ValidateVoltages == {0 - 1, MIN_VOLTAGE - 1, MIN_VOLTAGE, LowVoltage,
                     FAULT_VOLTAGE_START_cfg, MAX_VOLTAGE, MAX_VOLTAGE + 1}

InitValidate ==
    Start(Running(InitWorld(Grid(1, 0), RefPoint, TRIES_PER_POSITION_cfg,
                            FAULT_VOLTAGE_START_cfg)),
          [ShortCaps EXCEPT !.history = FALSE, !.trace = FALSE])

NextValidate ==
    \/ \E timeHigh_ns \in HighTimeInputs : ChangeHighTime(timeHigh_ns)
    \/ \E voltage \in ValidateVoltages : ChangeVoltageTo(voltage)
    \/ \E deadtime \in DeadtimeInputs : ChangeDeadtime(deadtime)

SpecValidate == InitValidate /\ [][NextValidate]_vars

\* the values the claim says fail validation
HighTimeInvalid(t) ==
    t < 0 \/ t > MAX_HIGH_TIME_ns \/ t < MIN_HIGH_TIME_ns
DeadtimeInvalid(d) ==
    d < 1 \/ d > 1000 \/ d < (FAULT_VOLTAGE \div 30) + 1

\* C13: a change() call whose parameter fails validation leaves that
\* parameter's recorded and device value, the disable stack and the armed
\* flag unchanged.
C13_InvalidLeavesState ==
    [][/\ \A t \in HighTimeInputs :
            HighTimeInvalid(t) /\ ChangeHighTime(t) =>
                /\ FAULT_PATTERN' = FAULT_PATTERN
                /\ chipshouter'.pat_wave = chipshouter.pat_wave
                /\ CS' = CS
       /\ \A v \in ValidateVoltages :
            MustReject(v) /\ ChangeVoltageTo(v) =>
                /\ FAULT_VOLTAGE' = FAULT_VOLTAGE
                /\ chipshouter'.voltage = chipshouter.voltage
                /\ CS' = CS
       /\ \A d \in DeadtimeInputs :
            DeadtimeInvalid(d) /\ ChangeDeadtime(d) =>
                /\ DEAD_TIME' = DEAD_TIME
                /\ chipshouter'.deadtime = chipshouter.deadtime
                /\ CS' = CS]_vars

\* a high time below one 20 ns unit was requested: the pattern is as it was,
\* the generator is disarmed and "user" is on the disable stack
C13_Witness_DisarmedByShortPulse ==
    /\ CS.disable_requests = <<"user">>
    /\ ~CS.enabled
    /\ chipshouter.state = "disarmed"
    /\ FAULT_PATTERN = FAULT_PATTERN_START


(***************************************************************************)
(* Checkpoint logic.  pickle.dump writes the object as a program for a     *)
(* stack machine and pickle.load runs that program.  A number, string,     *)
(* None or a signature snapshot is pushed as one constant; a dict is       *)
(* EMPTY_DICT MARK key value ... SETITEMS and a list is EMPTY_LIST MARK    *)
(* item ... APPENDS.                                                       *)
(***************************************************************************)
RECURSIVE Flatten(_)
Flatten(seqs) == IF seqs = <<>> THEN <<>> ELSE Head(seqs) \o Flatten(Tail(seqs))

Op(op) == [op |-> op, arg |-> None]
pickle_const(v) == <<[op |-> "PUSH", arg |-> Some(v)]>>
pickle_dict(keys, streams) ==
    <<Op("EMPTY_DICT"), Op("MARK")>>
        \o Flatten([i \in 1..Len(keys) |->
                        pickle_const(keys[i]) \o streams[i]])
        \o <<Op("SETITEMS")>>
pickle_list(streams) ==
    <<Op("EMPTY_LIST"), Op("MARK")>> \o Flatten(streams) \o <<Op("APPENDS")>>

\* a dict whose values are constants
pickle_flat_dict(keys, d) ==
    pickle_dict(keys, [i \in 1..Len(keys) |-> pickle_const(d[keys[i]])])

pickle_dump(checkpoint) ==
    pickle_dict(
        <<"BOUNDARIES", "CURRENT_POSITION", "REFERENCE_POINT",
          "TRIES_LEFT_PER_POSITION", "CONFIRMED_FAULTS", "CONFIRMED_ALARMS",
          "checkpoint_time">>,
        <<pickle_dict(<<"X", "Y", "Z">>,
                      <<pickle_flat_dict(<<"LEFT", "RIGHT">>,
                                         checkpoint.BOUNDARIES.X),
                        pickle_flat_dict(<<"UP", "DOWN">>,
                                         checkpoint.BOUNDARIES.Y),
                        pickle_flat_dict(<<"UP", "DOWN">>,
                                         checkpoint.BOUNDARIES.Z)>>),
          pickle_flat_dict(<<"X", "Y", "Z">>, checkpoint.CURRENT_POSITION),
          pickle_flat_dict(<<"X", "Y">>, checkpoint.REFERENCE_POINT),
          pickle_const(checkpoint.TRIES_LEFT_PER_POSITION),
          pickle_list([i \in 1..Len(checkpoint.CONFIRMED_FAULTS) |->
                          pickle_flat_dict(<<"signature", "sig_params">>,
                                           checkpoint.CONFIRMED_FAULTS[i])]),
          pickle_list([i \in 1..Len(checkpoint.CONFIRMED_ALARMS) |->
                          pickle_flat_dict(<<"alarms", "sig_params">>,
                                           checkpoint.CONFIRMED_ALARMS[i])]),
          pickle_const(checkpoint.checkpoint_time)>>)
        \o <<Op("STOP")>>

\* the unpickler's stack holds [mark, v]: the mark object or a value
TopMark(stack) == CHOOSE m \in 1..Len(stack) :
                      stack[m].mark /\ \A j \in (m + 1)..Len(stack) : ~stack[j].mark

\* dict.update with the key, value pairs above the mark
RECURSIVE SetItems(_, _)
SetItems(d, items) ==
    IF items = <<>> THEN d
    ELSE SetItems((items[1].v :> items[2].v) @@ d,
                  SubSeq(items, 3, Len(items)))

\* list.extend with the values above the mark
RECURSIVE Appends(_, _)
Appends(l, items) ==
    IF items = <<>> THEN l
    ELSE Appends(Append(l, items[1].v), Tail(items))

\* one instruction of the unpickler
unpickle_op(o, stack) ==
    LET m == TopMark(stack)
        items == SubSeq(stack, m + 1, Len(stack))
        below == SubSeq(stack, 1, m - 2)
        obj == stack[m - 1].v
        Value(v) == [mark |-> FALSE, v |-> v]
    IN  IF o.op = "PUSH" THEN Append(stack, Value(o.arg.v))
        ELSE IF o.op \in {"EMPTY_DICT", "EMPTY_LIST"}
        THEN Append(stack, Value(<<>>))
        ELSE IF o.op = "MARK" THEN Append(stack, [mark |-> TRUE, v |-> <<>>])
        ELSE IF o.op = "SETITEMS"
        THEN Append(below, Value(SetItems(obj, items)))
        ELSE Append(below, Value(Appends(obj, items)))

\* the instructions lo..hi run on a stack
RECURSIVE unpickle(_, _, _, _)
unpickle(ops, lo, hi, stack) ==
    IF lo = hi THEN unpickle_op(ops[lo], stack)
    ELSE CHOOSE after \in
            {unpickle(ops, ((lo + hi) \div 2) + 1, hi, s) :
                s \in {unpickle(ops, lo, (lo + hi) \div 2, stack)}} : TRUE

\* the object on top of the stack when STOP is reached
pickle_load(ops) ==
    LET stack == unpickle(ops, 1, Len(ops) - 1, <<>>)
    IN  stack[Len(stack)].v

save_checkpoint(w) ==
    LET checkpoint ==
            [BOUNDARIES |-> w.BOUNDARIES,
             CURRENT_POSITION |-> w.CURRENT_POSITION,
             REFERENCE_POINT |-> w.REFERENCE_POINT,
             TRIES_LEFT_PER_POSITION |-> w.TRIES_LEFT_PER_POSITION,
             CONFIRMED_FAULTS |-> w.CONFIRMED_FAULTS,
             CONFIRMED_ALARMS |-> w.CONFIRMED_ALARMS,
             checkpoint_time |-> w.now]
    IN  Note([w EXCEPT !.checkpoint_file = Some(pickle_dump(checkpoint)),
                       !.written = Some(checkpoint)],
             "save_checkpoint", "saved")

\* LoadCheckpointDisplay.select_and_load_checkpoint, the one file selected
select_and_load_checkpoint_keeping_tries(w) ==
    LET checkpoint == pickle_load(w.checkpoint_file.v)
    IN  Note([w EXCEPT !.BOUNDARIES = checkpoint["BOUNDARIES"],
                       !.CURRENT_POSITION = checkpoint["CURRENT_POSITION"],
                       !.REFERENCE_POINT = checkpoint["REFERENCE_POINT"],
                       !.CONFIRMED_FAULTS = checkpoint["CONFIRMED_FAULTS"],
                       !.CONFIRMED_ALARMS = checkpoint["CONFIRMED_ALARMS"]],
             "load_checkpoint", "loaded")

select_and_load_checkpoint(w) ==
    LET checkpoint == pickle_load(w.checkpoint_file.v)
    IN  Note([w EXCEPT !.BOUNDARIES = checkpoint["BOUNDARIES"],
                       !.CURRENT_POSITION = checkpoint["CURRENT_POSITION"],
                       !.REFERENCE_POINT = checkpoint["REFERENCE_POINT"],
                       !.TRIES_LEFT_PER_POSITION =
                           checkpoint["TRIES_LEFT_PER_POSITION"],
                       !.CONFIRMED_FAULTS = checkpoint["CONFIRMED_FAULTS"],
                       !.CONFIRMED_ALARMS = checkpoint["CONFIRMED_ALARMS"]],
             "load_checkpoint", "loaded")

\* export_params() / export_faults_and_map(): the files are written
export_params(w) == [w EXCEPT !.session.exported = @ \cup {"params"}]
export_faults_and_map(w) == [w EXCEPT !.session.exported = @ \cup {"faults_and_map"}]

onPause(w) == save_checkpoint(export_params(w))

\* worker_loop after its while loop has seen the stop flag: the else and the
\* finally clause, which calls action_quit()
worker_loop_exit(w) ==
    action_quit([export_params(export_faults_and_map(w))
                   EXCEPT !.session.worker = "exited"],
                FALSE, FALSE)

(***************************************************************************)
(* SpecCheckpoint: a run records faults and alarms and moves on, saves     *)
(* checkpoints, and is started again with or without loading the file      *)
(***************************************************************************)
CheckpointTimes == {1, 2}

\* the program started again, before its checkpoint dialog is answered: no
\* boundaries, reference point or position yet (None, written here as a
\* position no axis has), no SerialTarget yet (no port open); the motors
\* stand where they stood and the file is still on disk
Unset == 0 - 1
FreshWorld(w) ==
    [InitWorld(Grid(0, 0), RefPoint, MaxTries, FAULT_VOLTAGE_START_cfg)
        EXCEPT !.BOUNDARIES = [X |-> [LEFT |-> Unset, RIGHT |-> Unset],
                               Y |-> [UP |-> Unset, DOWN |-> Unset],
                               Z |-> [UP |-> Unset, DOWN |-> Unset]],
               !.REFERENCE_POINT = [X |-> Unset, Y |-> Unset],
               !.CURRENT_POSITION = [X |-> Unset, Y |-> Unset, Z |-> Unset],
               !.VARIABLE_HIGH_TIME = FALSE,
               !.TARGET.ser_baudrate = "None",
               !.AXES = w.AXES,
               !.checkpoint_file = w.checkpoint_file, !.written = w.written]

\* on_mount has constructed the SerialTarget and started the threads
Mounted == TARGET.ser_baudrate # "None"

\* on_mount after a checkpoint was loaded: the axes move to the loaded
\* position, the SerialTarget is constructed and the target is reset
on_mount(w) ==
    LET w1 == [w EXCEPT !.AXES =
                  [X |-> w.CURRENT_POSITION.X + w.REFERENCE_POINT.X,
                   Y |-> w.CURRENT_POSITION.Y + w.REFERENCE_POINT.Y,
                   Z |-> w.BOUNDARIES.Z.DOWN]]
    IN  reset([store_positions(w1) EXCEPT !.TARGET = TARGET_init], TRUE)

InitCheckpoint ==
    Start(Running([InitWorld(Grid(1, 0), RefPoint, MaxTries,
                             FAULT_VOLTAGE_START_cfg)
                      EXCEPT !.VARIABLE_HIGH_TIME = FALSE]),
          [ShortCaps EXCEPT !.history = FALSE, !.event_queue = 1,
                            !.records = 1, !.disable_requests = 2,
                            !.checkpoint = TRUE])

Pause(time) ==
    /\ ~stop_event
    /\ BOUNDARIES.X.LEFT # Unset
    /\ Step(onPause([WorldOf("dispatch") EXCEPT !.now = time]))

\* the program is ended and started again
Restart ==
    /\ checkpoint_file.some
    /\ Mounted
    /\ Step(FreshWorld(World))

\* the checkpoint dialog is answered with "load"
LoadCheckpoint ==
    /\ checkpoint_file.some
    /\ ~Mounted
    /\ BOUNDARIES.X.LEFT = Unset
    /\ Step(select_and_load_checkpoint(World))

OnMount ==
    /\ ~Mounted
    /\ BOUNDARIES.X.LEFT # Unset
    /\ Step(on_mount(World))

NextCheckpoint ==
    \/ /\ Mounted
       /\ \E line_str \in {"SIG_FAULTY", BannerTop, BannerEnd} \cup AlarmLines :
             ListenLine(TRUE, line_str, FALSE, TRUE)
    \/ Mounted /\ Dispatch(TRUE)
    \/ \E time \in CheckpointTimes : Pause(time)
    \/ Restart
    \/ LoadCheckpoint
    \/ OnMount

SpecCheckpoint == InitCheckpoint /\ [][NextCheckpoint]_vars

PREFIX == <<<<"0", "1">>, <<"f", "e">>, <<"0", "1">>, <<"f", "e">>>>
CRLF == <<<<"0", "d">>, <<"0", "a">>>>
HexChars == {"0", "1", "2", "3", "4", "5", "6", "7", "8", "9",
             "a", "b", "c", "d", "e", "f"}
Whitespace == {" ", "CR", "LF"}
REAL_DIGEST_hex_length == 64

\* bytes.find / str.find: the first index (from 0) sub occurs at, or -1
find(s, sub) ==
    LET at == {i \in 1..(Len(s) - Len(sub) + 1) :
                   SubSeq(s, i, i + Len(sub) - 1) = sub}
    IN  IF at = {} THEN 0 - 1
        ELSE (CHOOSE i \in at : \A j \in at : i <= j) - 1

\* str.rstrip(chars), str.lstrip(chars): chars is a set of characters
rstrip(s, chars) ==
    LET keep == {k \in 0..Len(s) : k = 0 \/ s[k] \notin chars}
    IN  SubSeq(s, 1, CHOOSE k \in keep : \A j \in keep : j <= k)
lstrip(s, chars) ==
    LET keep == {k \in 1..(Len(s) + 1) : k = Len(s) + 1 \/ s[k] \notin chars}
    IN  SubSeq(s, CHOOSE k \in keep : \A j \in keep : k <= j, Len(s))
strip(s) == lstrip(rstrip(s, Whitespace), Whitespace)

\* binascii.hexlify(payload).decode("ascii")
hexlify(payload) == Flatten(payload)

\* bytes.decode(errors="replace"), one character per byte
decode(payload) ==
    [i \in 1..Len(payload) |->
        IF payload[i][1] \in {"8", "9", "a", "b", "c", "d", "e", "f"}
        THEN "U+FFFD"
        ELSE IF payload[i] = <<"0", "d">> THEN "CR"
        ELSE IF payload[i] = <<"0", "a">> THEN "LF"
        ELSE IF payload[i] = <<"2", "0">> THEN " "
        ELSE IF payload[i][1] = "3" /\ payload[i][2] \in
                    {"0", "1", "2", "3", "4", "5", "6", "7", "8", "9"}
        THEN payload[i][2]
        ELSE "other"]

_is_parseable_string(payload_str, allowed_length, allowed_chars) ==
    LET invalid_chars == Cardinality({i \in 1..Len(payload_str) :
                                         payload_str[i] \notin allowed_chars})
        length_diff == IF Len(payload_str) >= allowed_length
                       THEN Len(payload_str) - allowed_length
                       ELSE allowed_length - Len(payload_str)
    IN  ~(\/ length_diff > 1 /\ 10 * length_diff > allowed_length
          \/ invalid_chars > 1 /\ 10 * invalid_chars > 4 * Len(payload_str))

\* SerialTarget._serial_to_string: [parseable, str].  Of the checks on a line
\* without the prefix, those on keywords, timings and alarms fail for the
\* lines sent here
_serial_to_string(payload) ==
    LET prefix_location == find(payload, PREFIX)
    IN  IF prefix_location # 0 - 1
        THEN [parseable |-> TRUE,
              str |-> strip(rstrip(
                          hexlify(SubSeq(payload,
                                         prefix_location + Len(PREFIX) + 1,
                                         Len(payload))),
                          {"0", "d", "0", "a"}))]
        ELSE LET payload_str == strip(rstrip(decode(payload), {"CR", "LF"}))
             IN  [parseable |-> /\ payload_str # <<>>
                                /\ _is_parseable_string(payload_str,
                                       REAL_DIGEST_hex_length, HexChars),
                  str |-> payload_str]

\* verifyParameters' assertion on the configured signature
verifyParameters(valid) == find(valid, <<"0", "d", "0", "a">>) = 0 - 1

\* the name the handlers know a received hex string by: the valid signature,
\* another string a signature's length, or a string of another length
line_name(payload_str, valid) ==
    IF payload_str = valid THEN VALID_SIGNATURE
    ELSE IF _is_parseable_string(payload_str, Len(valid), HexChars)
    THEN "SIG_FAULTY"
    ELSE "SIG_SHORT"

(***************************************************************************)
(* SpecSerial: the target announces signatures and sends them, intact or   *)
(* corrupted on the way, for each valid signature that can be configured   *)
(***************************************************************************)
SignatureHead ==
    <<<<"8", "f">>, <<"2", "1">>, <<"b", "2">>, <<"f", "2">>, <<"0", "d">>>>
TailBytes == {<<"1", "2">>, <<"3", "a">>, <<"0", "d">>, <<"0", "a">>,
              <<"6", "0">>}
FlipBytes == {<<"f", "f">>, <<"2", "4">>}
ConfiguredSignatures ==
    {sig \in {Append(SignatureHead, b) : b \in TailBytes} :
        verifyParameters(hexlify(sig))}

\* the line carrying sig and its corrupted copies
SignatureLine(sig) == PREFIX \o sig \o CRLF
WireLines(sig) ==
    {[kind |-> "valid", line |-> SignatureLine(sig)]}
    \cup {[kind |-> "flipped",
           line |-> PREFIX \o [sig EXCEPT ![i] = b] \o CRLF] :
            i \in {1, Len(sig)}, b \in FlipBytes}
    \cup {[kind |-> "truncated", line |-> PREFIX \o SubSeq(sig, 1, k) \o CRLF] :
            k \in {0, Len(sig) \div 2}}
    \cup {[kind |-> "no_prefix",
           line |-> [i \in 1..Len(PREFIX) |-> <<"f", "f">>] \o sig \o CRLF]}

InitSerial ==
    \E sig \in ConfiguredSignatures :
        Start([Running([InitWorld(Grid(1, 0), RefPoint, MaxTries,
                                  FAULT_VOLTAGE_START_cfg)
                          EXCEPT !.VARIABLE_HIGH_TIME = FALSE])
                  EXCEPT !.wire.VALID_SIGNATURE = hexlify(sig)],
              [ShortCaps EXCEPT !.history = FALSE, !.event_queue = 1,
                                !.records = 1, !.disable_requests = 2,
                                !.number_of_empty = 0, !.trace = FALSE])

\* listen() read a line of bytes
ReceiveBytes(l) ==
    LET r == _serial_to_string(l.line)
        w == [WorldOf("listener") EXCEPT
                 !.wire = [VALID_SIGNATURE |-> wire.VALID_SIGNATURE,
                           kind |-> l.kind, line |-> l.line,
                           parseable |-> r.parseable, payload_str |-> r.str]]
    IN  /\ ~stop_event
        /\ ~r.parseable =>
              TARGET.number_of_unparseables_at_position_and_voltage < MaxOverrun
        /\ Step(listen_line(w, r.parseable,
                            IF r.parseable
                            THEN line_name(r.str, wire.VALID_SIGNATURE)
                            ELSE "garbage",
                            FALSE, TRUE))

\* the signatures are the byte strings the valid hex string came from
SentSignature ==
    CHOOSE sig \in ConfiguredSignatures : hexlify(sig) = wire.VALID_SIGNATURE

NextSerial ==
    \/ ListenLine(TRUE, "Signature:", FALSE, TRUE)
    \/ \E l \in WireLines(SentSignature) : ReceiveBytes(l)
    \/ Dispatch(TRUE)

SpecSerial == InitSerial /\ [][NextSerial]_vars

\* C15: for every configured valid signature accepted by verifyParameters,
\* the line of prefix, the signature's bytes and the terminator is classified
\* parseable, the string returned for it equals VALID_SIGNATURE, and no fault
\* is recorded for it.
C15_ValidLineMatches ==
    wire.kind = "valid" =>
        /\ wire.parseable
        /\ wire.payload_str = wire.VALID_SIGNATURE
        /\ \A i \in 1..Len(event_queue) :
              event_queue[i].keyword = "Signature:" =>
                  event_queue[i].payload = VALID_SIGNATURE

\* the valid line of a signature ending in "a" was received after its keyword
\* and has been recorded as a fault
C15_Witness_ValidRecordedAsFault ==
    /\ wire.kind = "valid"
    /\ wire.line = SignatureLine(SentSignature)
    /\ wire.VALID_SIGNATURE[Len(wire.VALID_SIGNATURE)] = "a"
    /\ Len(CONFIRMED_FAULTS) = 1
    /\ CONFIRMED_FAULTS[1].signature = "SIG_FAULTY"

\* C16: a corrupted copy of the prefixed valid signature line is classified
\* parseable but not matching when its length is preserved, and a fault is
\* recorded for it; it is classified unparseable, and no fault is recorded,
\* when it is truncated.
C16_CorruptionByLength ==
    /\ wire.kind = "flipped" =>
          /\ wire.parseable
          /\ wire.payload_str # wire.VALID_SIGNATURE
          /\ \A i \in 1..Len(event_queue) :
                event_queue[i].keyword = "Signature:" =>
                    event_queue[i].payload # VALID_SIGNATURE
    /\ wire.kind = "truncated" =>
          /\ ~wire.parseable
          /\ \A i \in 1..Len(CONFIRMED_FAULTS) :
                CONFIRMED_FAULTS[i].signature # "SIG_SHORT"

\* the line cut down to its prefix and terminator was received after its
\* keyword and has been recorded as a fault
C16_Witness_TruncatedRecordedAsFault ==
    /\ wire.kind = "truncated"
    /\ wire.line = PREFIX \o CRLF
    /\ wire.parseable
    /\ wire.payload_str = <<>>
    /\ Len(CONFIRMED_FAULTS) = 1
    /\ CONFIRMED_FAULTS[1].signature = "SIG_SHORT"


(***************************************************************************)
(* Motion with motors that miss the requested position.  m describes the   *)
(* motor of the moved axis: m.first and m.retry are the offsets (in        *)
(* micrometres) at which it stops after the move and after the retried     *)
(* move, m.homed is what its is_homed() answers.                           *)
(***************************************************************************)
Abs(x) == IF x < 0 THEN 0 - x ELSE x

\* move(axes, {faulty_axis: position}, ignore_divergence=True) as called by
\* retry_movement: no overwrite, the Z axis lifted before and lowered after
move_ignoring_divergence(w, axis, position, m) ==
    IF ~w.ALLOW_MOVEMENT THEN w
    ELSE Note([w EXCEPT !.stop_event = @ \/ position >= max_travel,
                        !.AXES = [@ EXCEPT
                            ![axis] = position + w.REFERENCE_POINT[axis]
                                        + m.retry,
                            !.Z = w.BOUNDARIES.Z.DOWN]],
              "retry_move", axis)

\* move(axes, {"Z": position}) as called by retry_movement
move_Z(w, position) ==
    IF ~w.ALLOW_MOVEMENT THEN w
    ELSE [w EXCEPT !.stop_event = @ \/ position >= max_travel,
                   !.AXES.Z = position]

\* retry_movement without its home_axes call
retry_movement_not_homing(w, faulty_axis, position, m) ==
    LET z_position == w.AXES.Z
        w1 == move_Z(w, 0)
        w2 == move_ignoring_divergence(w1, faulty_axis, position, m)
    IN  move_Z(w2, z_position)

\* retry_movement(axes, faulty_axis, position) for the X or the Y axis.
\* home_axes({faulty_axis: motor}) returns at once when the motor reports
\* homed; when it does not, home_axes looks up axes["Z"] in the one-entry
\* dict, the KeyError is caught, selfheal_axes() homes every axis and
\* retry_movement is called again before the move is retried
retry_movement(w, faulty_axis, position, m) ==
    LET z_position == w.AXES.Z
        w1 == move_Z(w, 0)
        w2 == IF m.homed THEN w1
              ELSE retry_movement_not_homing(
                       Note(selfheal_axes(w1), "home", "all"),
                       faulty_axis, position, m)
        w3 == move_ignoring_divergence(w2, faulty_axis, position, m)
    IN  move_Z(w3, z_position)

\* move(axes, {axis: position}, overwrite=...) for the X or the Y axis
move_drifting(w, axis, position, overwrite, m) ==
    IF ~(w.ALLOW_MOVEMENT \/ overwrite) THEN w
    ELSE LET w0 == IF position >= max_travel
                   THEN Note(w, "invalid_movement", axis) ELSE w
             w1 == Note([w0 EXCEPT
                            !.stop_event = @ \/ position >= max_travel,
                            !.AXES = [@ EXCEPT
                                ![axis] = position + w.REFERENCE_POINT[axis]
                                            + m.first,
                                !.Z = w.BOUNDARIES.Z.UP]],
                        "move_to", axis)
             divergence == Abs(position - (w1.AXES[axis]
                                             - w.REFERENCE_POINT[axis]))
             w2 == Note(w1, "divergence", divergence)
         IN  IF divergence >= DIVERGENCE_LIMIT
             THEN LET w3 == retry_movement(w2, axis, position, m)
                      again == Abs(position - (w3.AXES[axis]
                                                 - w.REFERENCE_POINT[axis]))
                  IN  [Note(w3, "divergence", again) EXCEPT
                          !.stop_event = @ \/ again >= DIVERGENCE_LIMIT,
                          !.AXES.Z = w.BOUNDARIES.Z.DOWN]
             ELSE [w2 EXCEPT !.AXES.Z = w.BOUNDARIES.Z.DOWN]

(***************************************************************************)
(* SpecMove: moves of the X and Y axes with motors that may miss the       *)
(* position, the operator toggling movement in between                     *)
(***************************************************************************)
MovePositions == {0, STEP_SIZE}
Offsets == {0, DIVERGENCE_LIMIT - 1, DIVERGENCE_LIMIT, 0 - 2 * DIVERGENCE_LIMIT}

InitMove ==
    Start(Running(InitWorld(Grid(1, 1), RefPoint, MaxTries,
                            FAULT_VOLTAGE_START_cfg)),
          [ShortCaps EXCEPT !.history = FALSE])

Move(axis, position, overwrite, m) ==
    /\ ~stop_event
    /\ Step(store_positions(move_drifting(World, axis, position, overwrite, m)))

NextMove ==
    \/ \E axis \in {"X", "Y"}, position \in MovePositions,
          overwrite \in BOOLEAN, first \in Offsets, retry \in Offsets,
          homed \in BOOLEAN :
          Move(axis, position, overwrite,
               [first |-> first, retry |-> retry, homed |-> homed])
    \/ SetPosition

SpecMove == InitMove /\ [][NextMove]_vars

\* the divergences move() measured in tr, in order
Divergences(tr) == [i \in 1..Cardinality(Marks(tr, "divergence")) |->
                      tr[CHOOSE k \in Marks(tr, "divergence") :
                            Cardinality({j \in Marks(tr, "divergence") : j <= k})
                               = i].arg]

\* C26: a move whose achieved position diverges from the requested one by
\* 0.01 mm or more causes exactly one re-homing of the offending axis and one
\* retry of that move; the stop flag is set by the move if the position still
\* diverges after the retry, and is not set by it otherwise.
C26_OneRehomeOneRetry ==
    [][LET d == Divergences(trace')
       IN  Len(d) >= 1 /\ d[1] >= DIVERGENCE_LIMIT
              => /\ Cardinality(Marks(trace', "home")) = 1
                 /\ Cardinality(Marks(trace', "retry_move")) = 1
                 /\ Len(d) = 2
                 /\ stop_event' <=> d[2] >= DIVERGENCE_LIMIT]_vars

\* a move missed its position by 0.01 mm, the retried move reached it: the
\* axis reported homed, so it was not homed again
C26_Witness_RetriedWithoutHoming ==
    /\ Len(Divergences(trace)) = 2
    /\ Divergences(trace)[1] = DIVERGENCE_LIMIT
    /\ Divergences(trace)[2] = 0
    /\ Cardinality(Marks(trace, "retry_move")) = 1
    /\ Marks(trace, "home") = {}
    /\ ~stop_event


(***************************************************************************)
(* SpecStop: a run that pauses (checkpoint and export), moves with motors  *)
(* that may miss the position or to positions beyond the travel, and ends  *)
(* when worker_loop sees the stop flag                                     *)
(***************************************************************************)
StopPositions == {0, STEP_SIZE, max_travel}

InitStop ==
    Start(Running(InitWorld(Grid(1, 1), RefPoint, MaxTries,
                            FAULT_VOLTAGE_START_cfg)),
          [ShortCaps EXCEPT !.history = FALSE, !.checkpoint = TRUE])

WorkerExit ==
    /\ stop_event
    /\ session.worker = "running"
    /\ Step(worker_loop_exit(WorldOf("dispatch")))

NextStop ==
    \/ \E axis \in {"X", "Y"}, position \in StopPositions,
          first \in {0, DIVERGENCE_LIMIT}, retry \in {0, DIVERGENCE_LIMIT} :
          Move(axis, position, FALSE,
               [first |-> first, retry |-> retry, homed |-> TRUE])
    \/ \E time \in CheckpointTimes : Pause(time)
    \/ WorkerExit

SpecStop == InitStop /\ [][NextStop]_vars

\* C35: a movement request that fails validation (here: a position at or
\* beyond max_travel) commands no motor: no move_to is issued for it and no
\* axis changes its position.
C35_InvalidRequestMovesNothing ==
    [][Marks(trace', "invalid_movement") # {}
          => Marks(trace', "move_to") = {} /\ AXES' = AXES]_vars

\* the X axis has been sent to max_travel past the reference point by a
\* request that failed validation and set the stop flag
C35_Witness_MovedBeyondTravel ==
    /\ Did(trace, "invalid_movement", "X")
    /\ Did(trace, "move_to", "X")
    /\ AXES.X = max_travel + REFERENCE_POINT.X
    /\ stop_event

\* C25: when the stop flag is set by a fatal condition (second positioning
\* divergence, invalid movement request), a checkpoint is written and the
\* results are exported before the run terminates.
C25_FatalStopSavesAndExports ==
    [][session.worker = "running" /\ session'.worker = "exited"
          => /\ \/ Marks(trace, "save_checkpoint") # {}
                \/ Marks(trace', "save_checkpoint") # {}
             /\ session'.exported = {"params", "faults_and_map"}]_vars

\* the run has ended on a second divergence: the results are exported, no
\* checkpoint file exists
C25_Witness_EndedWithoutCheckpoint ==
    /\ stop_event
    /\ session.worker = "exited"
    /\ session.exported = {"params", "faults_and_map"}
    /\ ~checkpoint_file.some
    /\ Abs(CURRENT_POSITION.X - STEP_SIZE) = DIVERGENCE_LIMIT


(***************************************************************************)
(* SpecRetry: an operation of the connector that raises every time it is   *)
(* invoked, on a device that answers status() ("ok") or does not           *)
(***************************************************************************)
InitRetry ==
    \E d \in {"ok", "lib_error"} :
        Start([Running(InitWorld(Grid(1, 1), RefPoint, TRIES_PER_POSITION_cfg,
                                 FAULT_VOLTAGE_START_cfg))
                 EXCEPT !.gen.device = d],
              [ShortCaps EXCEPT !.history = FALSE])

\* change() raises while writing a parameter and calls handleException
CallChange ==
    ~stop_event /\ Idle
    /\ Step(Push(World, Frame("handleException", FALSE, "change")))

NextRetry ==
    \/ CallChange
    \/ CallGetInfo
    \/ SelfhealIteration
    \/ ResetIteration
    \/ ConnectIteration
    \/ HandleException
    \/ Quit

SpecRetry == InitRetry /\ [][NextRetry]_vars

\* the re-invocations of the operation that are in progress: each frame of
\* handleException that has called retry_fun
Reinvocations ==
    {k \in 1..Len(gen.stack) :
        /\ gen.stack[k].fn = "handleException"
        /\ gen.stack[k].at = "done"
        /\ gen.stack[k].retry \in {"change", "getInfo"}}

\* C27: when a generator operation raises, the recovery for its exception
\* class runs and the operation is re-invoked at most once; when that
\* re-invocation fails a full device reset is performed and the operation
\* is not invoked again.
C27_ReinvokedAtMostOnce == Cardinality(Reinvocations) <= 1

\* change() has been re-invoked a second time after the reset that followed
\* the failure of its first re-invocation
C27_Witness_SecondReinvocation ==
    /\ Cardinality(Reinvocations) = 2
    /\ gen.device = "ok"
    /\ Did(trace, "retry", "change")
    /\ gen.stack[2].poeh
    /\ ~stop_event


(***************************************************************************)
(* ready_for_commands_with_timeout: the probe runs in a ThreadPoolExecutor *)
(* worker; leaving the with block joins that worker                        *)
(***************************************************************************)
\* one step of ready_for_commands_with_timeout(timeout, retry_fun): the
\* wait for the future ("start"), the return of selfheal() ("healed"), and
\* the end of the with block ("joining"), which returns once the worker
\* thread has finished
CS_ready_step(w) ==
    LET f == Top(w)
    IN  CASE f.at = "start" ->
               IF w.gen.device = "busy"
               THEN Note(Push(SetTop(w, [f EXCEPT !.at = "healed"]),
                              Frame("selfheal", FALSE, "")),
                         "probe", "timeout")
               ELSE IF w.gen.device = "ok"
               THEN Note(SetTop(w, [f EXCEPT !.at = "joining"]),
                         "probe", "returned")
               ELSE Note(Push(SetTop(w, [f EXCEPT !.at = "joining"]),
                              Frame("handleException", f.poeh, f.retry)),
                         "probe", "raised")
          [] f.at = "healed" -> SetTop(w, [f EXCEPT !.at = "joining"])
          [] OTHER -> Pop(w)

\* the worker thread is still inside ready_for_commands()
ProbeHung == gen.device = "busy"

(***************************************************************************)
(* SpecProbe: arm(), change() and initialize() probing a device that       *)
(* answers, raises, or never returns from the probe                        *)
(***************************************************************************)
InitProbe ==
    \E d \in {"ok", "busy", "lib_error"} :
        Start([Running(InitWorld(Grid(1, 1), RefPoint, TRIES_PER_POSITION_cfg,
                                 FAULT_VOLTAGE_START_cfg))
                 EXCEPT !.gen.device = d],
              [ShortCaps EXCEPT !.history = FALSE])

CallReady(retry) ==
    ~stop_event /\ Idle
    /\ Step(Push(World, Frame("ready_for_commands_with_timeout", FALSE, retry)))

ReadyStep ==
    /\ Running_fn("ready_for_commands_with_timeout")
    /\ Top(World).at = "joining" => ~ProbeHung
    /\ Step(CS_ready_step(World))

NextProbe ==
    \/ \E retry \in {"arm", "change", "initialize"} : CallReady(retry)
    \/ ReadyStep
    \/ SelfhealIteration
    \/ ResetIteration
    \/ ConnectIteration
    \/ HandleException
    \/ Quit

SpecProbe == InitProbe /\ [][NextProbe]_vars

\* C29: when the device's ready-for-commands probe never returns,
\* ready_for_commands_with_timeout() still returns after its timeout and the
\* self-heal: the call is never left waiting for the probe to end.
C29_ReturnsDespiteHungProbe ==
    \A k \in 1..Len(gen.stack) :
        gen.stack[k].fn = "ready_for_commands_with_timeout"
            => ~(gen.stack[k].at = "joining" /\ ProbeHung)

\* the probe timed out, selfheal() has returned, and change() stands at the
\* end of the with block waiting for the worker thread, which never ends
C29_Witness_WaitingForHungProbe ==
    /\ Running_fn("ready_for_commands_with_timeout")
    /\ Top(World).at = "joining"
    /\ Top(World).retry = "change"
    /\ ProbeHung
    /\ ~stop_event
    /\ ~ENABLED ReadyStep


(***************************************************************************)
(* SpecFloor: a target that sends nothing but unparseable lines, with and  *)
(* without a banner file.  A line read during a reset finds the reset time *)
(* passed: the listener sleeps that long after a line that does not end    *)
(* the reset.                                                              *)
(***************************************************************************)
FloorTries == {MaxTries, 3 * 11}

InitFloor ==
    \E banner_provided \in BOOLEAN, tpp \in FloorTries :
        Start([Running(InitWorld(Grid(1, 0), RefPoint, tpp, LowVoltage))
                 EXCEPT !.TARGET.banner_provided = banner_provided],
              [ShortCaps EXCEPT !.event_queue = 1, !.watch = TRUE])

UnparseableLine(arduino_ok) == ListenLine(FALSE, "garbage", TRUE, arduino_ok)

NextFloor == \E arduino_ok \in BOOLEAN : UnparseableLine(arduino_ok)

SpecFloor == InitFloor /\ [][NextFloor]_vars

ReductionThreshold == Max2(TRIES_PER_POSITION \div 3, 10)

\* C31: with a target that sends only unparseable lines, each line that
\* brings the per-position unparseable count to max(TRIES_PER_POSITION // 3,
\* 10) lowers the voltage by one increment or, at the floor, advances the
\* raster; and the listener makes progress towards that advance with the
\* lines it reads: at one position it never comes back to a program state it
\* has been in before (from where the same lines would bring it back again,
\* for ever).
C31_UnparseablePositionAbandoned ==
    /\ TARGET.number_of_unparseables_at_position_and_voltage < ReductionThreshold
    /\ FAULT_VOLTAGE > MIN_VOLTAGE
    /\ World \notin seen

\* no banner file, the ladder has reset the target, and the second reset
\* that the time-out starts has put the listener back where it waited for
\* the first: the unparseable count stands still below the threshold
C31_Witness_ResetCycleAtPosition ==
    /\ World \in seen
    /\ ~TARGET.banner_provided
    /\ TARGET.target_state = "STARTED_FIRST_RESET"
    /\ Did(trace, "complete_reset", "AFTER_FIRST_RESET")
    /\ TARGET.number_of_unparseables_at_position_and_voltage < ReductionThreshold
    /\ ~stop_event


(***************************************************************************)
(* SpecPairs: keyword lines, payload lines, unparseable lines and the      *)
(* target's banner in any order, the dispatch loop emptying the queue      *)
(***************************************************************************)
PairLines == {"Timings:", "SIG_FAULTY", BannerTop, BannerEnd}

InitPairs ==
    Start(Running(InitWorld(Grid(0, 0), RefPoint, 1, LowVoltage)),
          [ShortCaps EXCEPT !.event_queue = 1, !.records = 1, !.pairs = TRUE,
                            !.history = FALSE, !.disable_requests = 2])

NextPairs ==
    \/ \E line_str \in PairLines : ListenLine(TRUE, line_str, TRUE, TRUE)
    \/ ListenLine(FALSE, "garbage", TRUE, TRUE)
    \/ Dispatch(TRUE)

SpecPairs == InitPairs /\ [][NextPairs]_vars

\* the listener handled string line_str as a parseable message in this step
Handled(line_str) == Did(trace', "parseable", line_str)

\* C32: a keyword line is buffered and enqueues nothing; an event with a
\* buffered keyword is enqueued exactly once, by the line the listener reads
\* immediately after the keyword line (no unparseable line, reset line or
\* second keyword in between), and pairs the keyword with that line.
C32_KeywordPairedWithNextLine ==
    [][\A line_str \in PairLines :
          Handled(line_str) =>
              IF line_str \in KEYWORD_HANDLERS
              THEN event_queue' = event_queue
              ELSE TARGET.buffer # "None" =>
                      /\ lines_since_keyword = 0
                      /\ TARGET'.buffer = "None"
                      /\ Len(event_queue') = Len(event_queue) + 1
                      /\ event_queue'[Len(event_queue')].keyword = TARGET.buffer
                      /\ event_queue'[Len(event_queue')].payload = line_str]_vars

\* a timings event has just been enqueued for a signature line that came
\* two lines after the keyword line
C32_Witness_PairedAcrossUnparseable ==
    /\ Did(trace, "parseable", "SIG_FAULTY")
    /\ event_queue # <<>>
    /\ event_queue[Len(event_queue)].keyword = "Timings:"
    /\ event_queue[Len(event_queue)].payload = "SIG_FAULTY"
    /\ lines_since_keyword = MaxOverrun
    /\ TARGET.buffer = "None"


(***************************************************************************)
(* SpecTries: a target whose lines are all parseable (keyword lines, valid *)
(* and differing signatures), the generator armed, movement allowed        *)
(***************************************************************************)
TriesPerPosition == 1..(MaxTries + 1)

InitTries ==
    \E tpp \in TriesPerPosition :
        Start(Running(InitWorld(Grid(2, 0), RefPoint, tpp, LowVoltage)),
              [ShortCaps EXCEPT !.event_queue = 1, !.tries = TRUE,
                                !.history = FALSE])

NextTries ==
    \/ \E line_str \in {"Signature:", VALID_SIGNATURE, "SIG_FAULTY"} :
          ListenLine(TRUE, line_str, FALSE, TRUE)
    \/ Dispatch(TRUE)

SpecTries == InitTries /\ [][NextTries]_vars

InitShutdown ==
    \E cols \in 0..1 :
        Start(Running(InitWorld(Grid(cols, 0), RefPoint, 1, FloorVoltage)),
              [ShortCaps EXCEPT !.history = FALSE, !.event_queue = 1])

OperatorQuit(quit) == Step(action_quit(World, FALSE, quit))

CleanupEnd ==
    /\ session.cleanup = "started"
    /\ session.worker = "exited"
    /\ Step(cleanup_end(World))

NextShutdown ==
    \/ ListenLine(TRUE, VALID_SIGNATURE, FALSE, TRUE)
    \/ ListenLine(FALSE, "garbage", FALSE, TRUE)
    \/ Dispatch(TRUE)
    \/ \E position \in StopPositions :
          Move("X", position, FALSE, [first |-> 0, retry |-> 0, homed |-> TRUE])
    \/ \E quit \in BOOLEAN : OperatorQuit(quit)
    \/ WorkerExit
    \/ CleanupEnd

SpecShutdown == InitShutdown /\ [][NextShutdown]_vars

\* C36: on every path that sets the stop flag the shutdown cleanup runs: when
\* the dispatch loop has ended (its last act is the call of action_quit) the
\* cleanup thread has been started, which joins the threads and disarms the
\* generator.
C36_CleanupRunsAfterStop ==
    session.worker = "exited" => session.cleanup # "none"

\* the stop flag was set directly (by move(), or by the listener finishing
\* the scan at the voltage floor); the dispatch loop has ended, action_quit
\* found the flag set, no cleanup was started or can start, and the
\* generator is still armed
C36_Witness_EndedWithoutCleanup ==
    /\ stop_event
    /\ session.worker = "exited"
    /\ session.cleanup = "none"
    /\ CS.enabled
    /\ chipshouter.state = "armed"
    /\ CURRENT_POSITION.X = BOUNDARIES.X.RIGHT
    /\ AXES.X < max_travel
    /\ ~ENABLED CleanupEnd


(***************************************************************************)
(* SpecLocks: the three threads run the code paths that take locks; every  *)
(* path is the sequence of its acquire and release steps                   *)
(***************************************************************************)
with_lock(l, body) ==
    <<[op |-> "acquire", lock |-> l]>> \o body \o <<[op |-> "release", lock |-> l]>>

\* CS_Connector.request_disable / release_disable: the connector's lock, and
\* arm() inside it, which takes the lock again
disable_locks(arms) ==
    with_lock("CS._lock", IF arms THEN with_lock("CS._lock", <<>>) ELSE <<>>)

\* as reset, but request_disable's lock kept until reset() returns
reset_locks_holding_generator(dummy, raises) ==
    with_lock("CS._lock",
              with_lock("CS._lock", <<>>)
              \o with_lock("target_lock",
                           IF dummy THEN with_lock("dummy_lock", <<>>) ELSE <<>>))
    \o (IF raises THEN disable_locks(TRUE) ELSE <<>>)

\* SerialTarget.reset(): request_disable, then target_lock around the state
\* change and the reset command (DummyTarget.reset takes dummy_lock); the
\* except clause calls release_disable
reset_locks(dummy, raises) ==
    disable_locks(TRUE)
    \o with_lock("target_lock",
                 IF dummy THEN with_lock("dummy_lock", <<>>) ELSE <<>>)
    \o (IF raises THEN disable_locks(TRUE) ELSE <<>>)

\* what a line's handling does under target_lock: nothing that locks, a
\* connector call (release_disable in _complete_reset, change in
\* _check_voltage_reduction), or SerialTarget.reset()
LineWork(dummy) ==
    {<<>>} \cup {disable_locks(arms) : arms \in BOOLEAN}
           \cup {reset_locks(dummy, raises) : raises \in BOOLEAN}

\* one pass of listen(): read_until (DummyTarget.read_until takes
\* dummy_lock), then the line is handled under target_lock; an empty read
\* is handled without it and may call reset()
listen_locks(dummy, empty, work) ==
    (IF dummy THEN with_lock("dummy_lock", <<>>) ELSE <<>>)
    \o (IF empty THEN work ELSE with_lock("target_lock", work))

\* what a handler of the dispatch loop or a console action does: connector
\* calls, TARGET.reset()
CallWork(dummy) ==
    {disable_locks(arms) : arms \in BOOLEAN}
    \cup {reset_locks(dummy, raises) : raises \in BOOLEAN}
    \cup {disable_locks(TRUE) \o reset_locks(dummy, FALSE)}

InitLocks ==
    \E dummy \in BOOLEAN :
        /\ StartWorld(Running(InitWorld(Grid(0, 0), RefPoint, 1, LowVoltage)),
                      ShortCaps)
        /\ LocksFree(dummy)

\* a thread enters one of its paths
Enter(t, path) ==
    /\ lock_todo[t] = <<>>
    /\ path # <<>>
    /\ lock_todo' = [lock_todo EXCEPT ![t] = path]
    /\ UNCHANGED <<dryrun, lock_owner, progvars, histvars>>

Listen(empty, work) == Enter("listener", listen_locks(dryrun, empty, work))

Handle(work) == Enter("worker", work)

ConsoleAction(work) == Enter("console", work)

\* the thread's next step is to acquire lock l
Wants(t, l) ==
    /\ lock_todo[t] # <<>>
    /\ Head(lock_todo[t]) = [op |-> "acquire", lock |-> l]

\* acquire() returns: the lock is free, or an RLock the thread owns
Acquire(t, l) ==
    /\ Wants(t, l)
    /\ \/ lock_owner[l].owner = "None"
       \/ lock_owner[l].owner = t /\ Reentrant(l)
    /\ lock_owner' = [lock_owner EXCEPT
                         ![l] = [owner |-> t, count |-> @.count + 1]]
    /\ lock_todo' = [lock_todo EXCEPT ![t] = Tail(@)]
    /\ UNCHANGED <<dryrun, progvars, histvars>>

\* the end of a with block
Release(t, l) ==
    /\ lock_todo[t] # <<>>
    /\ Head(lock_todo[t]) = [op |-> "release", lock |-> l]
    /\ lock_owner' = [lock_owner EXCEPT
                         ![l] = IF @.count = 1
                                THEN [owner |-> "None", count |-> 0]
                                ELSE [@ EXCEPT !.count = @ - 1]]
    /\ lock_todo' = [lock_todo EXCEPT ![t] = Tail(@)]
    /\ UNCHANGED <<dryrun, progvars, histvars>>

NextLocks ==
    \/ \E empty \in BOOLEAN : \E work \in LineWork(dryrun) : Listen(empty, work)
    \/ \E work \in CallWork(dryrun) : Handle(work)
    \/ \E work \in CallWork(dryrun) : ConsoleAction(work)
    \/ \E t \in Threads : \E l \in Locks : Acquire(t, l)
    \/ \E t \in Threads : \E l \in Locks : Release(t, l)

SpecLocks == InitLocks /\ [][NextLocks]_vars

\* the thread is blocked in acquire(): the lock is held by another thread,
\* or it is the plain Lock and held at all
Blocked(t, l) ==
    /\ Wants(t, l)
    /\ lock_owner[l].owner # "None"
    /\ lock_owner[l].owner # t \/ ~Reentrant(l)

\* C37: the threads never deadlock on target_lock, CS_Connector._lock and
\* dummy_lock: in no reachable state do two threads each hold one of these
\* locks while blocked on a lock the other holds, and whenever a thread is
\* inside a locking path some thread inside one can take its next step.
C37_NoLockDeadlock ==
    /\ \A t1, t2 \in Threads : \A a, b \in Locks :
          ~(/\ t1 # t2
            /\ lock_owner[a].owner = t1 /\ Blocked(t1, b)
            /\ lock_owner[b].owner = t2 /\ Blocked(t2, a))
    /\ (\E t \in Threads : lock_todo[t] # <<>>)
          => \E t \in Threads :
                /\ lock_todo[t] # <<>>
                /\ \A l \in Locks : ~Blocked(t, l)

\* the listener holds target_lock for a line and is blocked on the
\* connector's lock, which the dispatch thread holds inside request_disable
\* of reset(); the console waits for target_lock
C37_Witness_ContendedLocks ==
    /\ lock_owner["target_lock"].owner = "listener"
    /\ Blocked("listener", "CS._lock")
    /\ lock_owner["CS._lock"] = [owner |-> "worker", count |-> 2]
    /\ Blocked("console", "target_lock")
    /\ Wants("console", "target_lock")


(***************************************************************************)
(* SpecSweep: positions worked through with the adaptive search enabled,   *)
(* every try answered by a parseable signature                             *)
(***************************************************************************)
SweepVoltages == {FloorVoltage, LowVoltage, MAX_VOLTAGE}

InitSweep ==
    \E volt \in SweepVoltages : \E variable_voltage \in BOOLEAN :
        Start([Running(InitWorld(Grid(1, 0), RefPoint, AdaptiveTries, volt))
                 EXCEPT !.VARIABLE_HIGH_TIME = TRUE,
                        !.VARIABLE_VOLTAGE = variable_voltage],
              [ShortCaps EXCEPT !.history = FALSE, !.event_queue = 1,
                                !.disable_requests = 1, !.records = 1])

NextSweep ==
    \/ \E line_str \in {"Signature:", VALID_SIGNATURE} :
          ListenLine(TRUE, line_str, FALSE, TRUE)
    \/ Dispatch(TRUE)

SpecSweep == InitSweep /\ [][NextSweep]_vars

\* C38: when a position completes and the raster advances, the voltage and
\* the pulse pattern set on the generator are back at their position-start
\* baselines: the recorded FAULT_VOLTAGE, reset to FAULT_VOLTAGE_START, is
\* the voltage the device holds, and the device's pattern is the one the
\* first position started with.
C38_BaselinesRestoredOnAdvance ==
    [][Did(trace', "jog", "None")
         => /\ FAULT_VOLTAGE' = FAULT_VOLTAGE_START'
            /\ chipshouter'.voltage = FAULT_VOLTAGE'
            /\ chipshouter'.pat_wave = chipshouter_init(FAULT_VOLTAGE').pat_wave]_vars

\* the raster has advanced: FAULT_VOLTAGE is back at its start value and the
\* try budget is full, while the device still holds the voltage and the
\* pattern of the last adaptive step
C38_Witness_DeviceKeptLastStep ==
    /\ Did(trace, "jog", "None")
    /\ TRIES_LEFT_PER_POSITION = TRIES_PER_POSITION
    /\ VARIABLE_STATE = 0
    /\ FAULT_VOLTAGE = FAULT_VOLTAGE_START
    /\ chipshouter.voltage # FAULT_VOLTAGE
    /\ chipshouter.pat_wave # chipshouter_init(FAULT_VOLTAGE).pat_wave


(***************************************************************************)
(* SpecResume: a raster of two rows is scanned, checkpointed, and the      *)
(* program started again from the checkpoint                               *)
(***************************************************************************)
InitResume ==
    Start(Running([InitWorld(Grid(1, 1), RefPoint, MaxTries,
                             FAULT_VOLTAGE_START_cfg)
                      EXCEPT !.VARIABLE_HIGH_TIME = FALSE]),
          [ShortCaps EXCEPT !.history = FALSE, !.event_queue = 1,
                            !.records = 1, !.disable_requests = 2,
                            !.checkpoint = TRUE])

NextResume ==
    \/ /\ Mounted
       /\ \E line_str \in {"Signature:", VALID_SIGNATURE, BannerTop, BannerEnd} :
             ListenLine(TRUE, line_str, FALSE, TRUE)
    \/ Mounted /\ Dispatch(TRUE)
    \/ Pause(1)
    \/ Restart
    \/ LoadCheckpoint
    \/ OnMount

SpecResume == InitResume /\ [][NextResume]_vars

\* the direction a run started at the upper left corner travels in on the
\* row of the current position, and the cell it finishes at
RowOfPosition == (BOUNDARIES.Y.UP - CURRENT_POSITION.Y) \div STEP_SIZE
RasterDirection == IF RowOfPosition % 2 = 0 THEN "right" ELSE "left"
LastCell ==
    [X |-> IF ((BOUNDARIES.Y.UP - BOUNDARIES.Y.DOWN) \div STEP_SIZE) % 2 = 0
           THEN BOUNDARIES.X.RIGHT ELSE BOUNDARIES.X.LEFT,
     Y |-> BOUNDARIES.Y.DOWN]

\* C39: a scan resumed from a checkpoint continues the raster as the
\* original run would have: the direction of travel, whenever the scan runs
\* and after a checkpoint was loaded, is the direction of the raster on the
\* row of the current position, and the scan finishes at the last cell of
\* the raster, having skipped none.
C39_ResumeContinuesRaster ==
    /\ (Mounted \/ Did(trace, "load_checkpoint", "loaded"))
          => DIRECTION = RasterDirection
    /\ Did(trace, "jog", "True")
          => /\ CURRENT_POSITION.X = LastCell.X
             /\ CURRENT_POSITION.Y = LastCell.Y

\* the run resumed on the second row, which the original run travelled to
\* the left, travels to the right and finishes the scan at the cell of the
\* checkpoint: the cell left of it is never visited
C39_Witness_FinishedAtCheckpointCell ==
    /\ Did(trace, "jog", "True")
    /\ DIRECTION = "right"
    /\ CURRENT_POSITION.Y = BOUNDARIES.Y.DOWN
    /\ CURRENT_POSITION.X = BOUNDARIES.X.RIGHT
    /\ BOUNDARIES = Grid(1, 1)
    /\ written.some
    /\ written.v.CURRENT_POSITION.X = CURRENT_POSITION.X
    /\ written.v.CURRENT_POSITION.Y = CURRENT_POSITION.Y

=============================================================================
